---------------------------- MODULE Spec2Model ----------------------------
(***************************************************************************)
(* A model of github.com/fango6/proxyproto: the PROXY protocol header      *)
(* codec (version 1 text, version 2 binary, TLVs, CRC-32c) and the         *)
(* connection wrapper that reads the header lazily and once.               *)
(*                                                                         *)
(* Bytes are the integers 0..255, byte strings are sequences of bytes.     *)
(* A nil pointer or nil interface is the record NilValue, Go errors are    *)
(* strings (their messages), a nil error is the string "nil".              *)
(***************************************************************************)
EXTENDS Integers, Sequences, FiniteSets, TLC

\* ------------------------------------------------------------------------
\* Bounds of the model
\* ------------------------------------------------------------------------

\* Number of goroutines that use one wrapped connection concurrently.
NThreads == 2

\* Number of calls made on the wrapped connection, all goroutines together.
MaxCalls == 2

\* The clock stops at this instant (seconds).
MaxTime == 6

\* ------------------------------------------------------------------------
\* Small helpers on sequences
\* ------------------------------------------------------------------------

Min(a, b) == IF a < b THEN a ELSE b

\* K applied to v: names a value that is used several times
Bind(v, K(_)) == K(v)

Take(s, n) == SubSeq(s, 1, Min(n, Len(s)))

Drop(s, n) == SubSeq(s, Min(n, Len(s)) + 1, Len(s))

IsPrefix(p, s) == Len(p) <= Len(s) /\ SubSeq(s, 1, Len(p)) = p

Zeros(n) == IF n <= 0 THEN <<>> ELSE [i \in 1..n |-> 0]

RECURSIVE IndexByte(_, _, _)
\* bytes.IndexByte from position i (1-based); 0 when absent
IndexByte(s, c, i) ==
  IF i > Len(s) THEN 0 ELSE IF s[i] = c THEN i ELSE IndexByte(s, c, i + 1)

\* nil of a pointer or an interface (a *Header, a net.Addr)
NilValue == [nil |-> TRUE]

\* ------------------------------------------------------------------------
\* src/header.go: constants
\* ------------------------------------------------------------------------

Version1 == 1
Version2 == 2

CMD_LOCAL == 0
CMD_PROXY == 1

AF_UNSPEC == 0
AF_INET == 1
AF_INET6 == 2
AF_UNIX == 3

SOCK_UNSPEC == 0
SOCK_STREAM == 1
SOCK_DGRAM == 2

Unknown == "Unknown"

\* "PROXY "
v1Prefix == <<80, 82, 79, 88, 89, 32>>

\* "\r\n\r\n\x00\r\nQUIT\n"
v2Signature == <<13, 10, 13, 10, 0, 13, 10, 81, 85, 73, 84, 10>>

ErrNoProxyProtocol == "proxy protocol prefix not present"

\* Command.String
CommandString(c) ==
  CASE c = CMD_LOCAL -> "V1"
    [] c = CMD_PROXY -> "V2"
    [] OTHER -> Unknown

\* AddressFamily.String
AddressFamilyString(af) ==
  CASE af = AF_INET -> "IPv4"
    [] af = AF_INET6 -> "IPv4"
    [] af = AF_UNIX -> "Unix"
    [] OTHER -> Unknown

\* TransportProtocol.String
TransportProtocolString(tp) ==
  CASE tp = SOCK_STREAM -> "TCP"
    [] tp = SOCK_DGRAM -> "UDP"
    [] OTHER -> Unknown

\* ------------------------------------------------------------------------
\* Errors of the standard library that the code passes on
\* ------------------------------------------------------------------------

EOF == "EOF"
ErrUnexpectedEOF == "unexpected EOF"
ErrBufferFull == "bufio: buffer full"
ErrDeadlineExceeded == "i/o timeout"
ErrClosed == "use of closed network connection"

\* errors.Wrap(err, msg)
Wrap(err, msg) == msg \o ": " \o err

\* ------------------------------------------------------------------------
\* bufio.Reader, as ReadHeader uses it.
\*
\* A reader is replayed over the results of the Read calls the underlying
\* connection has answered so far (chunks, each [data, err]).  A call that
\* needs one more Read than was answered leaves the reader starved, with
\* want the size of the slice that Read is given; every later call on a
\* starved reader does nothing.
\* ------------------------------------------------------------------------

\* size of the buffer bufio.NewReader allocates
defaultBufSize == 4096

\* bufio.NewReader(rd), rd answering with chunks
NewReader(chunks) ==
  [buf |-> <<>>, err |-> "nil", chunks |-> chunks, starved |-> FALSE, want |-> 0]

\* one Read of the underlying reader into a slice of n bytes: it returns
\* what is at hand, n bytes at most
RdUnderlying(r, n) ==
  IF r.starved THEN r
  ELSE IF r.chunks = <<>> THEN [r EXCEPT !.starved = TRUE, !.want = n]
  ELSE IF Len(Head(r.chunks).data) > n
  THEN [r EXCEPT !.buf = @ \o Take(Head(r.chunks).data, n),
                 !.chunks = <<[Head(r.chunks) EXCEPT !.data = Drop(@, n)]>> \o Tail(@)]
  ELSE [r EXCEPT !.buf = @ \o Head(r.chunks).data,
                 !.err = Head(r.chunks).err,
                 !.chunks = Tail(@)]

\* (*Reader).fill
RdFill(r) == RdUnderlying(r, defaultBufSize - Len(r.buf))

RECURSIVE RdPeekLoop(_, _)
RdPeekLoop(r, n) ==
  IF ~r.starved /\ Len(r.buf) < n /\ Len(r.buf) < defaultBufSize /\ r.err = "nil"
  THEN RdPeekLoop(RdFill(r), n)
  ELSE r

\* a Peek that takes the bytes it returns out of the buffer
RdPeekDiscard(r, n) ==
  Bind(RdPeekLoop(r, n), LAMBDA r1 :
  [rd |-> [r1 EXCEPT !.buf = Drop(@, n), !.err = "nil"],
   bytes |-> Take(r1.buf, n),
   err |-> IF Len(r1.buf) >= n THEN "nil"
           ELSE IF r1.err = "nil" THEN ErrBufferFull ELSE r1.err])

\* (*Reader).Peek: [rd, bytes, err]
RdPeek(r, n) ==
  LET r1 == RdPeekLoop(r, n) IN
  IF n > defaultBufSize THEN [rd |-> r1, bytes |-> r1.buf, err |-> ErrBufferFull]
  ELSE IF Len(r1.buf) < n
  THEN [rd |-> [r1 EXCEPT !.err = "nil"], bytes |-> r1.buf,
        err |-> IF r1.err = "nil" THEN ErrBufferFull ELSE r1.err]
  ELSE [rd |-> r1, bytes |-> Take(r1.buf, n), err |-> "nil"]

RECURSIVE RdReadByte(_)
\* (*Reader).ReadByte: [rd, byte, err]
RdReadByte(r) ==
  IF r.starved THEN [rd |-> r, byte |-> 0, err |-> "nil"]
  ELSE IF r.buf = <<>>
  THEN IF r.err # "nil"
       THEN [rd |-> [r EXCEPT !.err = "nil"], byte |-> 0, err |-> r.err]
       ELSE RdReadByte(RdFill(r))
  ELSE [rd |-> [r EXCEPT !.buf = Tail(@)], byte |-> Head(r.buf), err |-> "nil"]

\* (*Reader).Read into a slice of n bytes: [rd, bytes, err]
RdRead(r, n) ==
  IF r.starved THEN [rd |-> r, bytes |-> <<>>, err |-> "nil"]
  ELSE IF n = 0
  THEN IF r.buf # <<>> THEN [rd |-> r, bytes |-> <<>>, err |-> "nil"]
       ELSE [rd |-> [r EXCEPT !.err = "nil"], bytes |-> <<>>, err |-> r.err]
  ELSE IF r.buf = <<>>
  THEN IF r.err # "nil"
       THEN [rd |-> [r EXCEPT !.err = "nil"], bytes |-> <<>>, err |-> r.err]
       ELSE LET r1 == RdUnderlying(r, IF n >= defaultBufSize THEN n ELSE defaultBufSize) IN
            IF r1.starved THEN [rd |-> r1, bytes |-> <<>>, err |-> "nil"]
            ELSE IF n >= defaultBufSize
            \* large read: straight into the caller's slice, nothing is buffered
            THEN [rd |-> [r1 EXCEPT !.buf = <<>>, !.err = "nil"],
                  bytes |-> r1.buf, err |-> r1.err]
            ELSE IF r1.buf = <<>>
            THEN [rd |-> [r1 EXCEPT !.err = "nil"], bytes |-> <<>>, err |-> r1.err]
            ELSE [rd |-> [r1 EXCEPT !.buf = Drop(@, n)],
                  bytes |-> Take(r1.buf, n), err |-> "nil"]
  ELSE [rd |-> [r EXCEPT !.buf = Drop(@, n)], bytes |-> Take(r.buf, n), err |-> "nil"]

RECURSIVE RdReadFull(_, _, _)
\* io.ReadFull(io.LimitReader(reader, n), buf) with len(buf) = n, got so far:
\* [rd, bytes, err]
RdReadFull(r, n, got) ==
  IF r.starved THEN [rd |-> r, bytes |-> got, err |-> "nil"]
  ELSE IF Len(got) >= n THEN [rd |-> r, bytes |-> got, err |-> "nil"]
  ELSE Bind(RdRead(r, n - Len(got)), LAMBDA x :
       IF x.rd.starved THEN [rd |-> x.rd, bytes |-> got, err |-> "nil"]
       ELSE IF x.err # "nil"
       THEN [rd |-> x.rd, bytes |-> got \o x.bytes,
             err |-> IF Len(got \o x.bytes) >= n THEN "nil"
                     ELSE IF x.err = EOF /\ Len(got \o x.bytes) > 0
                     THEN ErrUnexpectedEOF ELSE x.err]
       ELSE RdReadFull(x.rd, n, got \o x.bytes))


\* ------------------------------------------------------------------------
\* Text helpers of the standard library (ASCII input)
\* ------------------------------------------------------------------------

\* unicode.IsSpace on an ASCII byte: \t \n \v \f \r and space
IsSpace(c) == c \in {9, 10, 11, 12, 13, 32}

IsDigit(c) == c >= 48 /\ c <= 57

IsHexDigit(c) == IsDigit(c) \/ (c >= 97 /\ c <= 102) \/ (c >= 65 /\ c <= 70)

HexVal(c) == IF IsDigit(c) THEN c - 48 ELSE IF c >= 97 THEN c - 87 ELSE c - 55

RECURSIVE TrimLeft(_)
TrimLeft(s) == IF s # <<>> /\ IsSpace(Head(s)) THEN TrimLeft(Tail(s)) ELSE s

RECURSIVE TrimRight(_)
TrimRight(s) ==
  IF s # <<>> /\ IsSpace(s[Len(s)]) THEN TrimRight(SubSeq(s, 1, Len(s) - 1)) ELSE s

\* bytes.TrimSpace
TrimSpace(s) == TrimRight(TrimLeft(s))

\* strings.Fields: the maximal runs of bytes that are not white space, in
\* order; a field starts at a byte that follows white space or begins s and
\* ends before the next white space
Fields(s) ==
  LET spaces == {i \in 1..Len(s) : IsSpace(s[i])}
      starts == {i \in 1..Len(s) : ~IsSpace(s[i]) /\ (i = 1 \/ (i - 1) \in spaces)}
      start(k) == CHOOSE i \in starts : Cardinality({j \in starts : j < i}) = k - 1
      end(i) == IF \E j \in spaces : j > i
                THEN (CHOOSE j \in spaces : j > i /\ \A l \in spaces : l > i => j <= l) - 1
                ELSE Len(s)
  IN [k \in 1..Cardinality(starts) |-> SubSeq(s, start(k), end(start(k)))]

RECURSIVE SplitFrom(_, _, _, _)
SplitFrom(s, sep, cur, acc) ==
  IF s = <<>> THEN Append(acc, cur)
  ELSE IF Head(s) = sep THEN SplitFrom(Tail(s), sep, <<>>, Append(acc, cur))
  ELSE SplitFrom(Tail(s), sep, Append(cur, Head(s)), acc)

\* strings.Split(s, sep) for a one-byte separator
Split(s, sep) == SplitFrom(s, sep, <<>>, <<>>)

RECURSIVE DecVal(_, _)
\* value of a string of decimal digits, saturating at 1000000
DecVal(s, acc) ==
  IF s = <<>> THEN acc
  ELSE DecVal(Tail(s), Min(1000000, acc * 10 + (Head(s) - 48)))

AllDigits(s) == \A i \in 1..Len(s) : IsDigit(s[i])

RECURSIVE StripZeros(_)
StripZeros(s) == IF Len(s) > 1 /\ Head(s) = 48 THEN StripZeros(Tail(s)) ELSE s

RECURSIVE DigitsLess(_, _)
\* a < b for two digit strings of the same length
DigitsLess(a, b) ==
  IF a = <<>> THEN FALSE
  ELSE IF Head(a) # Head(b) THEN Head(a) < Head(b)
  ELSE DigitsLess(Tail(a), Tail(b))

\* 9223372036854775807 and 9223372036854775808, the bounds of a 64-bit int
MaxInt64Digits == <<57,50,50,51,51,55,50,48,51,54,56,53,52,55,55,53,56,48,55>>
MinInt64Digits == <<57,50,50,51,51,55,50,48,51,54,56,53,52,55,55,53,56,48,56>>

\* strconv.Atoi: [val, err]; val saturates (validatePort only compares it
\* with 0 and 65535), the quoted input is left out of the error message
Atoi(s) ==
  LET neg == s # <<>> /\ Head(s) = 45
      signed == s # <<>> /\ Head(s) \in {43, 45}
      digits == IF signed THEN Tail(s) ELSE s
      sig == StripZeros(digits)
      limit == IF neg THEN MinInt64Digits ELSE MaxInt64Digits
      inRange == Len(sig) < Len(limit)
                 \/ (Len(sig) = Len(limit) /\ ~DigitsLess(limit, sig))
      v == DecVal(sig, 0)
  IN IF digits = <<>> \/ ~AllDigits(digits)
     THEN [val |-> 0, err |-> "strconv.Atoi: invalid syntax"]
     ELSE IF ~inRange
     THEN [val |-> 0, err |-> "strconv.Atoi: value out of range"]
     ELSE [val |-> IF neg THEN 0 - v ELSE v, err |-> "nil"]

\* one field of a dotted-decimal IPv4 address: -1 when invalid
DecOctet(f) ==
  IF f = <<>> \/ Len(f) > 3 \/ ~AllDigits(f) \/ (Len(f) > 1 /\ Head(f) = 48)
     \/ DecVal(f, 0) > 255
  THEN -1 ELSE DecVal(f, 0)

\* the four bytes of a dotted-decimal IPv4 address, <<>> when invalid
ParseIPv4(s) ==
  LET parts == Split(s, 46) IN
  IF Len(parts) # 4 \/ \E i \in 1..4 : DecOctet(parts[i]) < 0 THEN <<>>
  ELSE [i \in 1..4 |-> DecOctet(parts[i])]

\* net.IPv4(a, b, c, d): the 16-byte form of an IPv4 address
IPv4(a, b, c, d) == <<0, 0, 0, 0, 0, 0, 0, 0, 0, 0, 255, 255, a, b, c, d>>

RECURSIVE HexField(_, _, _)
\* the leading hex digits of s: [n (digits read), val]; val -1 when more
\* than four digits
HexField(s, n, acc) ==
  IF s = <<>> \/ ~IsHexDigit(Head(s)) THEN [n |-> n, val |-> acc]
  ELSE IF n >= 4 THEN [n |-> n + 1, val |-> -1]
  ELSE HexField(Tail(s), n + 1, acc * 16 + HexVal(Head(s)))

RECURSIVE ParseIPv6Loop(_, _, _)
\* the field loop of the IPv6 parser: s the text left, ip the bytes read,
\* ellipsis the position of "::" in ip (-1: none); <<>> when invalid
ParseIPv6Loop(s, ip, ellipsis) ==
  LET expand(bytes, e) ==
        IF Len(bytes) < 16
        THEN IF e < 0 THEN <<>>
             ELSE SubSeq(bytes, 1, e) \o Zeros(16 - Len(bytes))
                  \o SubSeq(bytes, e + 1, Len(bytes))
        ELSE IF e >= 0 THEN <<>> ELSE bytes
  IN IF Len(ip) >= 16 THEN (IF s # <<>> THEN <<>> ELSE expand(ip, ellipsis))
     ELSE Bind(HexField(s, 0, 0), LAMBDA h :
          LET rest == Drop(s, h.n)
              ip2 == ip \o <<h.val \div 256, h.val % 256>>
          IN IF h.n = 0 \/ h.val < 0 THEN <<>>
             ELSE IF rest # <<>> /\ Head(rest) = 46
             THEN \* an embedded IPv4 address takes the place of the last two fields
                  IF (ellipsis < 0 /\ Len(ip) # 12) \/ Len(ip) + 4 > 16 THEN <<>>
                  ELSE Bind(ParseIPv4(s), LAMBDA v4 :
                       IF v4 = <<>> THEN <<>> ELSE expand(ip \o v4, ellipsis))
             ELSE IF rest = <<>> THEN expand(ip2, ellipsis)
             ELSE IF Head(rest) # 58 \/ Len(rest) = 1 THEN <<>>
             ELSE IF rest[2] = 58
             THEN IF ellipsis >= 0 THEN <<>>
                  ELSE IF Len(rest) = 2 THEN expand(ip2, Len(ip2))
                  ELSE ParseIPv6Loop(Drop(rest, 2), ip2, Len(ip2))
             ELSE ParseIPv6Loop(Tail(rest), ip2, ellipsis))

\* the sixteen bytes of an IPv6 literal, <<>> when invalid (a zone is invalid)
ParseIPv6(s) ==
  IF Len(s) >= 2 /\ s[1] = 58 /\ s[2] = 58
  THEN IF Len(s) = 2 THEN Zeros(16) ELSE ParseIPv6Loop(Drop(s, 2), <<>>, 0)
  ELSE ParseIPv6Loop(s, <<>>, -1)

\* net.ParseIP: the 16-byte form of the address, <<>> (nil) when invalid
ParseIP(s) ==
  IF IndexByte(s, 46, 1) > 0 /\ IndexByte(s, 58, 1) = 0
  THEN Bind(ParseIPv4(s), LAMBDA v4 :
       IF v4 = <<>> THEN <<>> ELSE IPv4(v4[1], v4[2], v4[3], v4[4]))
  ELSE IF IndexByte(s, 58, 1) > 0 THEN ParseIPv6(s)
  ELSE <<>>

\* net.IP.To4: the 4-byte form, <<>> (nil) when ip is no IPv4 address
To4(ip) ==
  IF Len(ip) = 4 THEN ip
  ELSE IF Len(ip) = 16 /\ SubSeq(ip, 1, 12) = <<0, 0, 0, 0, 0, 0, 0, 0, 0, 0, 255, 255>>
  THEN SubSeq(ip, 13, 16)
  ELSE <<>>

\* net.IP.To16: the 16-byte form, <<>> (nil) when ip has a wrong length
To16(ip) ==
  IF Len(ip) = 4 THEN IPv4(ip[1], ip[2], ip[3], ip[4])
  ELSE IF Len(ip) = 16 THEN ip
  ELSE <<>>

\* ------------------------------------------------------------------------
\* src/header.go: Header;  net.Addr values
\* ------------------------------------------------------------------------

\* &Header{...}: the fields a literal leaves out hold Go's zero values
NewHeader(ver, cmd, af, tp, raw) ==
  [Version |-> ver, Command |-> cmd, AddressFamily |-> af,
   TransportProtocol |-> tp, SrcAddr |-> NilValue, DstAddr |-> NilValue,
   Raw |-> raw, TLVs |-> <<>>]

\* &net.TCPAddr{IP: ip, Port: port}
TCPAddr(ip, port) == [Net |-> "tcp", IP |-> ip, Port |-> port]

\* &net.UDPAddr{IP: ip, Port: port}
UDPAddr(ip, port) == [Net |-> "udp", IP |-> ip, Port |-> port]

\* &net.UnixAddr{Net: network, Name: name}
UnixAddr(network, name) == [Net |-> network, Name |-> name]

\* ------------------------------------------------------------------------
\* src/utils.go
\* ------------------------------------------------------------------------

MaxUint16 == 65535

\* lengths of the address block of a version 2 header
addressLengthIPv4 == 12
addressLengthIPv6 == 36
addressLengthUnix == 216

ErrPayloadLengthTooShort == "pp2 payload length is too short"

\* validateIP: the error ("nil": none); a nil IP is the empty sequence
validateIP(ip, af) ==
  IF ip = <<>> THEN "invalid or empty IP"
  ELSE IF af = AF_INET /\ To4(ip) = <<>> THEN "invalid IPv4"
  ELSE IF af = AF_INET6 /\ To16(ip) = <<>> THEN "invalid IPv6"
  ELSE "nil"

\* parseAndValidateIP: [src, dst, err]
parseAndValidateIP(srcIpStr, dstIpStr, af) ==
  Bind(ParseIP(srcIpStr), LAMBDA srcIP :
  IF validateIP(srcIP, af) # "nil"
  THEN [src |-> <<>>, dst |-> <<>>, err |-> Wrap(validateIP(srcIP, af), "source IP")]
  ELSE Bind(ParseIP(dstIpStr), LAMBDA dstIP :
       IF validateIP(dstIP, af) # "nil"
       THEN [src |-> <<>>, dst |-> <<>>,
             err |-> Wrap(validateIP(dstIP, af), "destination IP")]
       ELSE [src |-> srcIP, dst |-> dstIP, err |-> "nil"]))

\* validatePort: the error ("nil": none)
validatePort(port) ==
  IF port <= 0 \/ port >= MaxUint16 THEN "invalid port" ELSE "nil"

\* parseAndValidatePort: [src, dst, err]
parseAndValidatePort(srcPortStr, dstPortStr) ==
  Bind(Atoi(srcPortStr), LAMBDA s :
  IF s.err # "nil" THEN [src |-> 0, dst |-> 0, err |-> Wrap(s.err, "source port")]
  ELSE IF validatePort(s.val) # "nil"
  THEN [src |-> 0, dst |-> 0, err |-> Wrap(validatePort(s.val), "source port")]
  ELSE Bind(Atoi(dstPortStr), LAMBDA d :
       IF d.err # "nil"
       THEN [src |-> 0, dst |-> 0, err |-> Wrap(d.err, "destination port")]
       ELSE IF validatePort(d.val) # "nil"
       THEN [src |-> 0, dst |-> 0, err |-> Wrap(validatePort(d.val), "destination port")]
       ELSE [src |-> s.val, dst |-> d.val, err |-> "nil"]))

\* validatePayloadLength: the error ("nil": none)
validatePayloadLength(length, af) ==
  IF \/ af = AF_INET /\ length < addressLengthIPv4
     \/ af = AF_INET6 /\ length < addressLengthIPv6
     \/ af = AF_UNIX /\ length < addressLengthUnix
  THEN ErrPayloadLengthTooShort ELSE "nil"

\* parseUnixName: the name up to its first NUL byte
parseUnixName(name) ==
  IF IndexByte(name, 0, 1) = 0 THEN name ELSE SubSeq(name, 1, IndexByte(name, 0, 1) - 1)

\* ------------------------------------------------------------------------
\* Version 1 (text) parser
\* ------------------------------------------------------------------------

v1HeaderMaxLength == 107

ErrMustEndWithCRLF == "pp1 header must end with '\\r\\n'"
ErrHeaderTooLong == "pp1 header too long"
ErrNotFoundAddressFamily == "pp1 header not found address family"
ErrInvalidAddressFamily == "pp1 invalid address family"
ErrNotFoundAddressOrPort == "pp1 header not found address or port"

\* "TCP4", "TCP6", "UNKNOWN"
StrTCP4 == <<84, 67, 80, 52>>
StrTCP6 == <<84, 67, 80, 54>>
StrUNKNOWN == <<85, 78, 75, 78, 79, 87, 78>>

\* how readV1 leaves its for loop, x the result of the last ReadByte
readV1Exit(x, raw) ==
  IF x.rd.starved THEN [rd |-> x.rd, raw |-> <<>>, err |-> "nil"]
  ELSE IF x.err # "nil" THEN [rd |-> x.rd, raw |-> <<>>, err |-> x.err]
  ELSE IF x.byte = 10
  THEN IF raw[Len(raw)] # 13
       THEN [rd |-> x.rd, raw |-> <<>>, err |-> ErrMustEndWithCRLF]
       ELSE [rd |-> x.rd, raw |-> Append(raw, x.byte), err |-> "nil"]
  ELSE [rd |-> x.rd, raw |-> <<>>, err |-> ErrHeaderTooLong]

RECURSIVE readV1LoopNoLimit(_, _)
\* a loop that reads up to the line feed, however far it is
readV1LoopNoLimit(r, raw) ==
  LET x == RdReadByte(r)
      lf == {i \in 1..Len(r.buf) : r.buf[i] = 10}
      n == IF lf = {} THEN Len(r.buf) ELSE (CHOOSE i \in lf : \A j \in lf : i <= j) - 1
  IN
  IF ~r.starved /\ n > 0
  THEN readV1LoopNoLimit([r EXCEPT !.buf = Drop(@, n)], raw \o Take(r.buf, n))
  ELSE IF ~x.rd.starved /\ x.err = "nil" /\ x.byte # 10
  THEN readV1LoopNoLimit(x.rd, Append(raw, x.byte))
  ELSE readV1Exit(x, raw)

RECURSIVE readV1Loop(_, _)
\* the for loop of readV1: [rd, raw, err].  The iterations that find their
\* byte in the buffer, no line feed, and leave raw shorter than the limit
\* are taken n at a time.
readV1Loop(r, raw) ==
  LET x == RdReadByte(r)
      lf == {i \in 1..Len(r.buf) : r.buf[i] = 10}
      first == IF lf = {} THEN Len(r.buf) + 1
               ELSE CHOOSE i \in lf : \A j \in lf : i <= j
      n == Min(first - 1, v1HeaderMaxLength - 1 - Len(raw))
  IN
  IF ~r.starved /\ n > 0
  THEN readV1Loop([r EXCEPT !.buf = Drop(@, n)], raw \o Take(r.buf, n))
  ELSE IF ~x.rd.starved /\ x.err = "nil" /\ x.byte # 10 /\ Len(raw) + 1 < v1HeaderMaxLength
  THEN readV1Loop(x.rd, Append(raw, x.byte))
  ELSE readV1Exit(x, raw)

\* readV1: [rd, raw, err]
readV1(reader) ==
  Bind(RdRead(reader, Len(v1Prefix)), LAMBDA x :
  IF x.err # "nil" \/ Len(x.bytes) < Len(v1Prefix) \/ x.bytes # v1Prefix
  THEN [rd |-> x.rd, raw |-> <<>>, err |-> ErrNoProxyProtocol]
  ELSE readV1Loop(x.rd, x.bytes))

\* parseV1: [header, err]
parseV1(raw) ==
  Bind(Fields(TrimSpace(raw)), LAMBDA fields :
  LET af == CASE fields[2] = StrTCP4 -> AF_INET
              [] fields[2] = StrTCP6 -> AF_INET6
              [] OTHER -> AF_UNSPEC
      header == NewHeader(Version1, CMD_LOCAL, af, SOCK_UNSPEC, raw)
  IN IF Len(fields) < 2 THEN [header |-> NilValue, err |-> ErrNotFoundAddressFamily]
     ELSE IF fields[2] \notin {StrTCP4, StrTCP6, StrUNKNOWN}
     THEN [header |-> NilValue, err |-> ErrInvalidAddressFamily]
     ELSE IF af # AF_UNSPEC /\ Len(fields) < 6
     THEN [header |-> NilValue, err |-> ErrNotFoundAddressOrPort]
     ELSE IF af # AF_INET /\ af # AF_INET6
     THEN [header |-> [header EXCEPT !.Command = CMD_LOCAL], err |-> "nil"]
     ELSE Bind(parseAndValidateIP(fields[3], fields[4], af), LAMBDA ips :
          IF ips.err # "nil" THEN [header |-> NilValue, err |-> ips.err]
          ELSE Bind(parseAndValidatePort(fields[5], fields[6]), LAMBDA ports :
               IF ports.err # "nil" THEN [header |-> NilValue, err |-> ports.err]
               ELSE [header |-> [header EXCEPT !.Command = CMD_PROXY,
                                               !.TransportProtocol = SOCK_STREAM,
                                               !.SrcAddr = TCPAddr(ips.src, ports.src),
                                               !.DstAddr = TCPAddr(ips.dst, ports.dst)],
                     err |-> "nil"])))

\* readAndParseV1: [rd, header, err]
readAndParseV1(reader) ==
  Bind(readV1(reader), LAMBDA x :
  IF x.rd.starved \/ x.err # "nil"
  THEN [rd |-> x.rd, header |-> NilValue, err |-> x.err]
  ELSE Bind(parseV1(x.raw), LAMBDA p :
       [rd |-> x.rd, header |-> p.header, err |-> p.err]))

\* ------------------------------------------------------------------------
\* src/tlv.go
\* ------------------------------------------------------------------------

PP2_TYPE_ALPN == 1
PP2_TYPE_AUTHORITY == 2
PP2_TYPE_CRC32C == 3
PP2_TYPE_NOOP == 4
PP2_TYPE_UNIQUE_ID == 5
PP2_TYPE_SSL == 32
PP2_SUBTYPE_SSL_VERSION == 33
PP2_SUBTYPE_SSL_CN == 34
PP2_SUBTYPE_SSL_CIPHER == 35
PP2_SUBTYPE_SSL_SIG_ALG == 36
PP2_SUBTYPE_SSL_KEY_ALG == 37
PP2_TYPE_NETNS == 48

ErrTlvLenTooShort == "TLV's length is too short"
ErrTlvValTooShort == "TLV's values are too short"

\* binary.BigEndian.Uint16 of the two bytes of b at offset off (0-based)
Uint16At(b, off) == b[off + 1] * 256 + b[off + 2]

RECURSIVE parseTLVsFrom(_, _, _)
\* the for loop of parseTLVs, cursor 0-based: [tlvs, err]
parseTLVsFrom(rawTLVs, cursor, tlvs) ==
  IF cursor >= Len(rawTLVs) THEN [tlvs |-> tlvs, err |-> "nil"]
  ELSE IF cursor + 1 + 2 > Len(rawTLVs) THEN [tlvs |-> <<>>, err |-> ErrTlvLenTooShort]
  ELSE LET length == Uint16At(rawTLVs, cursor + 1) IN
       IF cursor + 3 + length > Len(rawTLVs)
       THEN [tlvs |-> <<>>, err |-> ErrTlvValTooShort]
       ELSE parseTLVsFrom(rawTLVs, cursor + 3 + length,
              Append(tlvs, [Type |-> rawTLVs[cursor + 1], Length |-> length,
                            Value |-> SubSeq(rawTLVs, cursor + 4, cursor + 3 + length)]))

\* parseTLVs: [tlvs, err]
parseTLVs(rawTLVs) == parseTLVsFrom(rawTLVs, 0, <<>>)

\* TLV.IsRegistered
IsRegistered(tlv) ==
  tlv.Type \in {PP2_TYPE_ALPN, PP2_TYPE_AUTHORITY, PP2_TYPE_CRC32C, PP2_TYPE_NOOP,
                PP2_TYPE_UNIQUE_ID, PP2_TYPE_SSL, PP2_SUBTYPE_SSL_VERSION,
                PP2_SUBTYPE_SSL_CN, PP2_SUBTYPE_SSL_CIPHER, PP2_SUBTYPE_SSL_SIG_ALG,
                PP2_SUBTYPE_SSL_KEY_ALG, PP2_TYPE_NETNS}

\* ------------------------------------------------------------------------
\* Version 2 (binary) parser
\* ------------------------------------------------------------------------

ErrUnknownVersionAndCommand == "pp2 unknown version and command"
ErrUnknownAddrFamilyAndTranProtocol == "pp2 unknown address family and transport protocol"
ErrPayloadBytesTooShort == "pp2 payload of bytes are too short"

\* readV2: [rd, header, err]
readV2(reader) ==
  LET fail(rd, err) == [rd |-> rd, header |-> NilValue, err |-> err] IN
  Bind(RdRead(reader, Len(v2Signature)), LAMBDA sig :
  IF sig.err # "nil" \/ Len(sig.bytes) < Len(v2Signature) \/ sig.bytes # v2Signature
  THEN fail(sig.rd, ErrNoProxyProtocol)
  ELSE Bind(RdReadByte(sig.rd), LAMBDA b13 :
  LET ver == b13.byte \div 16
      cmd == b13.byte % 16
  IN
  IF b13.rd.starved \/ b13.err # "nil" THEN fail(b13.rd, b13.err)
  ELSE IF ver # Version2 \/ CommandString(cmd) = Unknown
  THEN fail(b13.rd, ErrUnknownVersionAndCommand)
  ELSE Bind(RdReadByte(b13.rd), LAMBDA b14 :
  LET af == b14.byte \div 16
      tp == b14.byte % 16
  IN
  IF b14.rd.starved \/ b14.err # "nil" THEN fail(b14.rd, b14.err)
  ELSE IF AddressFamilyString(af) = Unknown \/ TransportProtocolString(tp) = Unknown
  THEN fail(b14.rd, ErrUnknownAddrFamilyAndTranProtocol)
  ELSE Bind(RdReadFull(b14.rd, 2, <<>>), LAMBDA len :
  LET payloadLength == Uint16At(len.bytes, 0)
      raw == sig.bytes \o <<b13.byte, b14.byte>> \o len.bytes
      header == NewHeader(Version2, cmd, af, tp, raw)
  IN
  IF len.rd.starved \/ len.err # "nil" THEN fail(len.rd, len.err)
  ELSE IF payloadLength = 0 \/ header.Command = CMD_LOCAL
  THEN [rd |-> len.rd, header |-> [header EXCEPT !.Command = CMD_LOCAL], err |-> "nil"]
  ELSE IF validatePayloadLength(payloadLength, af) # "nil"
  THEN fail(len.rd, validatePayloadLength(payloadLength, af))
  ELSE Bind(RdRead(len.rd, payloadLength), LAMBDA payload :
  IF payload.rd.starved \/ payload.err # "nil" THEN fail(payload.rd, payload.err)
  ELSE IF Len(payload.bytes) # payloadLength
  THEN fail(payload.rd, ErrPayloadBytesTooShort)
  ELSE [rd |-> payload.rd, header |-> [header EXCEPT !.Raw = raw \o payload.bytes],
        err |-> "nil"])))))

\* parseV2IPv4: [src, dst, err]
parseV2IPv4(payload, tp) ==
  LET srcIP == IPv4(payload[1], payload[2], payload[3], payload[4])
      dstIP == IPv4(payload[5], payload[6], payload[7], payload[8])
      srcPort == Uint16At(payload, 8)
      dstPort == Uint16At(payload, 10)
      fail(err) == [src |-> NilValue, dst |-> NilValue, err |-> err]
  IN IF Len(payload) < addressLengthIPv4 THEN fail(ErrPayloadBytesTooShort)
     ELSE IF validateIP(srcIP, AF_INET) # "nil"
     THEN fail(Wrap(validateIP(srcIP, AF_INET), "source"))
     ELSE IF validateIP(dstIP, AF_INET) # "nil"
     THEN fail(Wrap(validateIP(dstIP, AF_INET), "destination"))
     ELSE IF validatePort(srcPort) # "nil" THEN fail(Wrap(validatePort(srcPort), "source"))
     ELSE IF validatePort(dstPort) # "nil"
     THEN fail(Wrap(validatePort(dstPort), "destination"))
     ELSE IF tp = SOCK_DGRAM
     THEN [src |-> UDPAddr(srcIP, srcPort), dst |-> UDPAddr(dstIP, dstPort), err |-> "nil"]
     ELSE [src |-> TCPAddr(srcIP, srcPort), dst |-> TCPAddr(dstIP, dstPort), err |-> "nil"]

\* parseV2IPv6: [src, dst, err]
parseV2IPv6(payload, tp) ==
  LET srcIP == SubSeq(payload, 1, 16)
      dstIP == SubSeq(payload, 17, 32)
      srcPort == Uint16At(payload, 32)
      dstPort == Uint16At(payload, 34)
      fail(err) == [src |-> NilValue, dst |-> NilValue, err |-> err]
  IN IF Len(payload) < addressLengthIPv6 THEN fail(ErrPayloadBytesTooShort)
     ELSE IF validateIP(srcIP, AF_INET6) # "nil"
     THEN fail(Wrap(validateIP(srcIP, AF_INET6), "source"))
     ELSE IF validateIP(dstIP, AF_INET6) # "nil"
     THEN fail(Wrap(validateIP(dstIP, AF_INET6), "destination"))
     ELSE IF validatePort(srcPort) # "nil" THEN fail(Wrap(validatePort(srcPort), "source"))
     ELSE IF validatePort(dstPort) # "nil"
     THEN fail(Wrap(validatePort(dstPort), "destination"))
     ELSE IF tp = SOCK_DGRAM
     THEN [src |-> UDPAddr(srcIP, srcPort), dst |-> UDPAddr(dstIP, dstPort), err |-> "nil"]
     ELSE [src |-> TCPAddr(srcIP, srcPort), dst |-> TCPAddr(dstIP, dstPort), err |-> "nil"]

\* a parse of the Unix address block that keeps the source name only
parseV2UnixSourceOnly(payload, tp) ==
  IF Len(payload) < addressLengthUnix
  THEN [src |-> NilValue, dst |-> NilValue, err |-> ErrPayloadBytesTooShort]
  ELSE [src |-> UnixAddr(IF tp = SOCK_DGRAM THEN "unixgram" ELSE "unix",
                         parseUnixName(SubSeq(payload, 1, 108))),
        dst |-> NilValue, err |-> "nil"]

\* parseV2Unix: [src, dst, err]
parseV2Unix(payload, tp) ==
  LET network == IF tp = SOCK_DGRAM THEN "unixgram" ELSE "unix" IN
  IF Len(payload) < addressLengthUnix
  THEN [src |-> NilValue, dst |-> NilValue, err |-> ErrPayloadBytesTooShort]
  ELSE [src |-> UnixAddr(network, parseUnixName(SubSeq(payload, 1, 108))),
        dst |-> UnixAddr(network, parseUnixName(SubSeq(payload, 109, addressLengthUnix))),
        err |-> "nil"]

\* parseV2: [header, err]; header is the header as parseV2 leaves it
parseV2(header) ==
  LET payload == Drop(header.Raw, Len(v2Signature) + 4)
      fixed == CASE header.AddressFamily = AF_INET -> addressLengthIPv4
                 [] header.AddressFamily = AF_INET6 -> addressLengthIPv6
                 [] OTHER -> addressLengthUnix
  IN IF header = NilValue THEN [header |-> header, err |-> "pp2 header is nil"]
     ELSE IF header.Command = CMD_LOCAL THEN [header |-> header, err |-> "nil"]
     ELSE IF Len(header.Raw) <= Len(v2Signature) + 4
     THEN [header |-> header, err |-> "pp2 payload is empty"]
     ELSE IF header.AddressFamily \notin {AF_INET, AF_INET6, AF_UNIX}
     THEN [header |-> header, err |-> ErrUnknownAddrFamilyAndTranProtocol]
     ELSE Bind(CASE header.AddressFamily = AF_INET ->
                      parseV2IPv4(payload, header.TransportProtocol)
                 [] header.AddressFamily = AF_INET6 ->
                      parseV2IPv6(payload, header.TransportProtocol)
                 [] OTHER -> parseV2Unix(payload, header.TransportProtocol),
          LAMBDA addrs :
          IF addrs.err # "nil" THEN [header |-> header, err |-> addrs.err]
          ELSE Bind(parseTLVs(Drop(payload, fixed)), LAMBDA tlvs :
               IF tlvs.err # "nil" THEN [header |-> header, err |-> tlvs.err]
               ELSE [header |-> [header EXCEPT !.TLVs = tlvs.tlvs,
                                               !.SrcAddr = addrs.src,
                                               !.DstAddr = addrs.dst],
                     err |-> "nil"]))

\* readAndParseV2: [rd, header, err]
readAndParseV2(reader) ==
  Bind(readV2(reader), LAMBDA x :
  IF x.rd.starved \/ x.err # "nil" THEN [rd |-> x.rd, header |-> NilValue, err |-> x.err]
  ELSE Bind(parseV2(x.header), LAMBDA p :
       IF p.err # "nil" THEN [rd |-> x.rd, header |-> NilValue, err |-> p.err]
       ELSE [rd |-> x.rd, header |-> p.header, err |-> "nil"]))

\* ------------------------------------------------------------------------
\* src/header.go: ReadHeader
\* ------------------------------------------------------------------------

\* bytes.HasPrefix(s, prefix)
HasPrefix(s, prefix) == IsPrefix(prefix, s)

\* ReadHeader: [rd, header, err]; rd.starved: the call waits in one more
\* Read of the underlying connection
ReadHeader(reader) ==
  LET fail(rd, err) == [rd |-> rd, header |-> NilValue, err |-> err] IN
  Bind(RdPeek(reader, Len(v1Prefix)), LAMBDA p1 :
  IF p1.rd.starved THEN fail(p1.rd, "nil")
  ELSE IF p1.err # "nil"
  THEN fail(p1.rd, IF p1.err = EOF THEN ErrNoProxyProtocol ELSE p1.err)
  ELSE IF p1.bytes = v1Prefix THEN readAndParseV1(p1.rd)
  ELSE IF ~HasPrefix(v2Signature, p1.bytes) THEN fail(p1.rd, ErrNoProxyProtocol)
  ELSE Bind(RdPeek(p1.rd, Len(v2Signature)), LAMBDA p2 :
       IF p2.rd.starved THEN fail(p2.rd, "nil")
       ELSE IF p2.err # "nil"
       THEN fail(p2.rd, IF p2.err = EOF THEN ErrNoProxyProtocol ELSE p2.err)
       ELSE IF p2.bytes = v2Signature THEN readAndParseV2(p2.rd)
       ELSE fail(p2.rd, ErrNoProxyProtocol)))

\* ------------------------------------------------------------------------
\* CRC-32c (Castagnoli), hash/crc32 with crc32cTab.  A 32-bit value is the
\* pair <<high 16 bits, low 16 bits>>.
\* ------------------------------------------------------------------------

RECURSIVE Xor(_, _)
\* bitwise exclusive or of two naturals
Xor(a, b) ==
  IF a = 0 THEN b ELSE IF b = 0 THEN a
  ELSE (((a % 2) + (b % 2)) % 2) + 2 * Xor(a \div 2, b \div 2)

\* the reversed Castagnoli polynomial 0x82F63B78
CastagnoliHi == 33526
CastagnoliLo == 15224

RECURSIVE CrcBits(_, _)
\* k steps of the bitwise CRC: shift right, xor the polynomial on a carry
CrcBits(crc, k) ==
  IF k = 0 THEN crc
  ELSE LET hi == crc[1] \div 2
           lo == crc[2] \div 2 + (crc[1] % 2) * 32768
       IN CrcBits(IF crc[2] % 2 = 1 THEN <<Xor(hi, CastagnoliHi), Xor(lo, CastagnoliLo)>>
                  ELSE <<hi, lo>>, k - 1)

\* crc32.MakeTable(crc32.Castagnoli): entry b is the register after eight
\* steps from b
crc32cTab == [b \in 0..255 |-> CrcBits(<<0, b>>, 8)]

RECURSIVE CrcUpdate(_, _, _, _)
\* the CRC register after the bytes data[lo..hi], taken in order: for each
\* byte v, crc = tab[byte(crc)^v] ^ (crc >> 8).  The range is halved and the
\* register of the first half is bound as a value (c), so that the
\* evaluation stays shallow.
CrcUpdate(crc, data, lo, hi) ==
  IF lo > hi THEN crc
  ELSE IF lo = hi
  THEN Bind(crc32cTab[Xor(crc[2] % 256, data[lo])], LAMBDA t :
       <<Xor(t[1], crc[1] \div 256),
         Xor(t[2], (crc[1] % 256) * 256 + crc[2] \div 256)>>)
  ELSE LET mid == (lo + hi) \div 2 IN
       CHOOSE r \in {CrcUpdate(c, data, mid + 1, hi) :
                       c \in {CrcUpdate(crc, data, lo, mid)}} : TRUE

\* crc32.Checksum(data, crc32cTab)
Crc32c(data) ==
  LET c == CrcUpdate(<<65535, 65535>>, data, 1, Len(data))
  IN <<Xor(c[1], 65535), Xor(c[2], 65535)>>

\* binary.BigEndian.Uint32 of the four bytes of b at offset off (0-based)
Uint32At(b, off) == <<Uint16At(b, off), Uint16At(b, off + 2)>>

ErrValidateCRC32cChecksum == "pp2 failed to validate CRC-32c checksum"

RECURSIVE ChecksumFrom(_, _)
\* the TLV loop of ChecksumCRC32c, offset 0-based
ChecksumFrom(raw, offset) ==
  IF offset >= Len(raw) THEN TRUE
  ELSE IF offset + 1 + 2 > Len(raw) THEN TRUE
  ELSE IF raw[offset + 1] = PP2_TYPE_CRC32C
  THEN IF offset + 3 + 4 > Len(raw) THEN TRUE
       ELSE Uint32At(raw, offset + 3)
            = Crc32c([i \in 1..Len(raw) |->
                        IF i > offset + 3 /\ i <= offset + 7 THEN 0 ELSE raw[i]])
  ELSE ChecksumFrom(raw, offset + 3 + Uint16At(raw, offset + 1))

\* a verification that takes a header without CRC32C TLV as invalid
ChecksumCRC32cRequired(h) ==
  /\ h # NilValue
  /\ \E i \in DOMAIN h.TLVs : h.TLVs[i].Type = PP2_TYPE_CRC32C
  /\ ChecksumFrom(h.Raw, 16 + addressLengthIPv4)

\* ChecksumCRC32c
ChecksumCRC32c(h) ==
  IF h = NilValue \/ h.Command # CMD_PROXY \/ h.Version # Version2
     \/ TransportProtocolString(h.TransportProtocol) = Unknown
  THEN TRUE
  ELSE IF h.AddressFamily = AF_INET THEN ChecksumFrom(h.Raw, 16 + addressLengthIPv4)
  ELSE IF h.AddressFamily = AF_INET6 THEN ChecksumFrom(h.Raw, 16 + addressLengthIPv6)
  ELSE IF h.AddressFamily = AF_UNIX THEN ChecksumFrom(h.Raw, 16 + addressLengthUnix)
  ELSE TRUE

\* ------------------------------------------------------------------------
\* Text of numbers and addresses (strconv.Itoa, net.IP.String)
\* ------------------------------------------------------------------------

RECURSIVE ItoaDigits(_)
\* the decimal digits of a natural number
ItoaDigits(n) ==
  IF n < 10 THEN <<48 + n>> ELSE Append(ItoaDigits(n \div 10), 48 + (n % 10))

\* strconv.Itoa
Itoa(n) == IF n < 0 THEN <<45>> \o ItoaDigits(0 - n) ELSE ItoaDigits(n)

RECURSIVE HexDigits(_)
\* the lower-case hex digits of a natural number, without leading zeros
HexDigits(n) ==
  LET d == n % 16
      ch == IF d < 10 THEN 48 + d ELSE 87 + d
  IN IF n < 16 THEN <<ch>> ELSE Append(HexDigits(n \div 16), ch)

\* the i-th 16-bit field of a 16-byte address, i in 1..8
Field16(ip, i) == ip[2 * i - 1] * 256 + ip[2 * i]

RECURSIVE ZeroRun(_, _)
\* the number of zero fields of ip from field i on
ZeroRun(ip, i) ==
  IF i > 8 \/ Field16(ip, i) # 0 THEN 0 ELSE 1 + ZeroRun(ip, i + 1)

RECURSIVE IPv6Fields(_, _, _, _)
\* the text of the fields i..8; the fields e0..e1-1 are written as "::"
IPv6Fields(ip, i, e0, e1) ==
  IF i > 8 THEN <<>>
  ELSE IF i = e0
  THEN <<58, 58>> \o (IF e1 > 8 THEN <<>>
                      ELSE HexDigits(Field16(ip, e1)) \o IPv6Fields(ip, e1 + 1, e0, e1))
  ELSE (IF i > 1 THEN <<58>> ELSE <<>>)
       \o HexDigits(Field16(ip, i)) \o IPv6Fields(ip, i + 1, e0, e1)

\* net.IP.String: dotted decimal for an IPv4 address (also in its 16-byte
\* form), else the IPv6 text with its first longest run of two or more zero
\* fields shortened to "::"; "<nil>" for no address
IPString(ip) ==
  IF Len(ip) = 0 THEN <<60, 110, 105, 108, 62>>
  ELSE IF To4(ip) # <<>>
  THEN Bind(To4(ip), LAMBDA p :
       Itoa(p[1]) \o <<46>> \o Itoa(p[2]) \o <<46>> \o Itoa(p[3]) \o <<46>> \o Itoa(p[4]))
  ELSE IF Len(ip) # 16 THEN <<63>>
  ELSE Bind([i \in 1..8 |-> ZeroRun(ip, i)], LAMBDA run :
       Bind(CHOOSE m \in 0..8 : (\E i \in 1..8 : run[i] = m) /\ \A i \in 1..8 : run[i] <= m,
       LAMBDA best :
       IF best < 2 THEN IPv6Fields(ip, 1, 0, 0)
       ELSE Bind(CHOOSE i \in 1..8 : run[i] = best /\ \A j \in 1..(i - 1) : run[j] < best,
            LAMBDA e0 : IPv6Fields(ip, 1, e0, e0 + best))))

\* ------------------------------------------------------------------------
\* src/tlv.go: building and formatting TLVs, the address block
\* ------------------------------------------------------------------------

\* NewTLV
NewTLV(t, val) == [Type |-> t, Length |-> Len(val) % 65536, Value |-> val]

\* NewNoOpTLV
NewNoOpTLV(length) == [Type |-> PP2_TYPE_NOOP, Length |-> length, Value |-> Zeros(length)]

\* TLV.Format: the bytes of the TLV, <<>> (nil) for a TLV without value; a
\* NOOP without value is Length zero bytes
TLVFormat(tlv) ==
  IF Len(tlv.Value) = 0
  THEN IF tlv.Type = PP2_TYPE_NOOP /\ tlv.Length > 0 THEN Zeros(tlv.Length) ELSE <<>>
  ELSE <<tlv.Type, (Len(tlv.Value) \div 256) % 256, Len(tlv.Value) % 256>> \o tlv.Value

\* formatUnixName: the name cut or filled with NUL bytes to half the block
formatUnixName(name) ==
  IF Len(name) >= addressLengthUnix \div 2 THEN SubSeq(name, 1, addressLengthUnix \div 2)
  ELSE name \o Zeros(addressLengthUnix \div 2 - Len(name))

\* the dynamic type of a net.Addr
IsIPAddr(addr, network) ==
  addr # NilValue /\ "Port" \in DOMAIN addr /\ addr.Net = network

IsUnixAddr(addr) == addr # NilValue /\ "Name" \in DOMAIN addr

\* the two bytes of a port, big endian
PortBytes(port) == <<(port \div 256) % 256, port % 256>>

\* guessAndParseAddrs: [buf, length, af, tp]; buf is NilValue for a nil
\* buffer
guessAndParseAddrs(srcAddr, dstAddr) ==
  LET none == [buf |-> NilValue, length |-> 0, af |-> AF_UNSPEC, tp |-> SOCK_UNSPEC]
      ips(tp) ==
        IF Len(srcAddr.IP) = 0 \/ Len(dstAddr.IP) = 0
           \/ validatePort(srcAddr.Port) # "nil" \/ validatePort(dstAddr.Port) # "nil"
        THEN none
        ELSE IF Len(To4(srcAddr.IP)) = 4 /\ Len(To4(dstAddr.IP)) = 4
        THEN [buf |-> To4(srcAddr.IP) \o To4(dstAddr.IP)
                      \o PortBytes(srcAddr.Port) \o PortBytes(dstAddr.Port),
              length |-> addressLengthIPv4, af |-> AF_INET, tp |-> tp]
        ELSE IF Len(To16(srcAddr.IP)) = 16 /\ Len(To16(dstAddr.IP)) = 16
        THEN [buf |-> To16(srcAddr.IP) \o To16(dstAddr.IP)
                      \o PortBytes(srcAddr.Port) \o PortBytes(dstAddr.Port),
              length |-> addressLengthIPv6, af |-> AF_INET6, tp |-> tp]
        ELSE none
  IN IF IsIPAddr(srcAddr, "tcp")
     THEN IF IsIPAddr(dstAddr, "tcp") THEN ips(SOCK_STREAM) ELSE none
     ELSE IF IsIPAddr(srcAddr, "udp")
     THEN IF IsIPAddr(dstAddr, "udp") THEN ips(SOCK_DGRAM) ELSE none
     ELSE IF IsUnixAddr(srcAddr)
     THEN IF IsUnixAddr(dstAddr)
          THEN [buf |-> formatUnixName(srcAddr.Name) \o formatUnixName(dstAddr.Name),
                length |-> addressLengthUnix, af |-> AF_UNIX,
                tp |-> IF srcAddr.Net = "unix" THEN SOCK_STREAM
                       ELSE IF srcAddr.Net = "unixgram" THEN SOCK_DGRAM
                       ELSE SOCK_UNSPEC]
          ELSE none
     ELSE none

\* ------------------------------------------------------------------------
\* src/client_side.go: the formatter.  A result is [raw, err, h]: the bytes
\* (<<>> for nil), the error, and the header as the call leaves it.
\* ------------------------------------------------------------------------

\* "PROXY UNKNOWN\r\n"
v1LocalValue == <<80, 82, 79, 88, 89, 32, 85, 78, 75, 78, 79, 87, 78, 13, 10>>

\* "\r\n\r\n\x00\r\nQUIT\n\x20\x00\x00\x00"
v2LocalValue == v2Signature \o <<32, 0, 0, 0>>

ErrUnknownVersion == "formater unknown version"
ErrUnknownAddrFamily == "formater unknown address family"
ErrUnknownTranProtocol == "formater unknown transport protocol"
ErrInvalidAddress == "formater invalid source or destination address"
ErrExceedPayloadLength == "payload's length exceeds uint16 (65535) when TLV will be wrote"

\* CalcCRC32cChecksum: the four bytes, big endian, of the CRC-32c of raw
CalcCRC32cChecksum(raw) ==
  Bind(Crc32c(raw), LAMBDA crc :
  <<crc[1] \div 256, crc[1] % 256, crc[2] \div 256, crc[2] % 256>>)

\* formatV1
formatV1(h) ==
  LET src == h.SrcAddr
      dst == h.DstAddr
      ports == Itoa(src.Port) \o <<32>> \o Itoa(dst.Port) \o <<13, 10>>
      tcp == [h EXCEPT !.TransportProtocol = SOCK_STREAM]
      done(line, af) ==
        [raw |-> line, err |-> "nil", h |-> [tcp EXCEPT !.AddressFamily = af, !.Raw = line]]
  IN IF h.Command = CMD_LOCAL THEN [raw |-> v1LocalValue, err |-> "nil", h |-> h]
     ELSE IF ~IsIPAddr(src, "tcp") \/ ~IsIPAddr(dst, "tcp")
     THEN [raw |-> <<>>, err |-> ErrInvalidAddress, h |-> h]
     ELSE IF Len(To4(src.IP)) = 4 /\ Len(To4(dst.IP)) = 4
     THEN done(v1Prefix \o StrTCP4 \o <<32>> \o IPString(To4(src.IP)) \o <<32>>
               \o IPString(To4(dst.IP)) \o <<32>> \o ports, AF_INET)
     ELSE IF Len(To16(src.IP)) = 16 /\ Len(To16(dst.IP)) = 16
     THEN done(v1Prefix \o StrTCP6 \o <<32>> \o IPString(To16(src.IP)) \o <<32>>
               \o IPString(To16(dst.IP)) \o <<32>> \o ports, AF_INET6)
     ELSE [raw |-> <<>>, err |-> ErrUnknownAddrFamily, h |-> tcp]

\* formatV2Bytes: [raw, err]
formatV2Bytes(verAndCmd, afAndTp, length, payload, wantChecksum) ==
  LET length1 == IF wantChecksum THEN (length + 7) % 65536 ELSE length
      appendNOOP == length1 + 11 < MaxUint16
      length2 == IF appendNOOP THEN (length1 + 11) % 65536 ELSE length1
      buf == v2Signature \o <<verAndCmd, afAndTp, length2 \div 256, length2 % 256>>
      noop == IF appendNOOP THEN TLVFormat(NewNoOpTLV(8)) ELSE <<>>
  IN IF wantChecksum /\ length + 7 > MaxUint16
     THEN [raw |-> <<>>, err |-> ErrExceedPayloadLength]
     ELSE IF wantChecksum
     THEN Bind(CalcCRC32cChecksum(buf \o payload \o <<PP2_TYPE_CRC32C, 0, 4, 0, 0, 0, 0>>
                                  \o noop),
          LAMBDA checksumBytes :
          [raw |-> buf \o payload \o TLVFormat(NewTLV(PP2_TYPE_CRC32C, checksumBytes))
                   \o noop,
           err |-> "nil"])
     ELSE [raw |-> buf \o payload \o noop, err |-> "nil"]

RECURSIVE formatV2TLVs(_, _, _)
\* the TLV loop of formatV2: [payload, length, err]
formatV2TLVs(tlvs, payload, length) ==
  IF tlvs = <<>> THEN [payload |-> payload, length |-> length, err |-> "nil"]
  ELSE Bind(TLVFormat(Head(tlvs)), LAMBDA data :
       IF 3 < Len(data) /\ Len(data) < MaxUint16
       THEN IF Len(payload) + Len(data) > MaxUint16
            THEN [payload |-> payload, length |-> length, err |-> ErrExceedPayloadLength]
            ELSE formatV2TLVs(Tail(tlvs), payload \o data, (length + Len(data)) % 65536)
       ELSE formatV2TLVs(Tail(tlvs), payload, length))

\* formatV2
formatV2(h, wantChecksum) ==
  IF h.Command = CMD_LOCAL THEN [raw |-> v2LocalValue, err |-> "nil", h |-> h]
  ELSE Bind(guessAndParseAddrs(h.SrcAddr, h.DstAddr), LAMBDA a :
  Bind([h EXCEPT !.AddressFamily = a.af, !.TransportProtocol = a.tp], LAMBDA h1 :
  LET verAndCmd == ((Version2 * 16) % 256) + 1
      afAndTp == (((a.af * 16) % 256) + a.tp) % 256
  IN IF a.buf = NilValue THEN [raw |-> <<>>, err |-> ErrInvalidAddress, h |-> h1]
     ELSE IF Len(a.buf) % 65536 # a.length
     THEN [raw |-> <<>>, err |-> ErrInvalidAddress, h |-> h1]
     ELSE IF Len(h.TLVs) = 0 /\ ~wantChecksum
     THEN Bind(v2Signature \o <<verAndCmd, afAndTp, a.length \div 256, a.length % 256>>
               \o a.buf,
          LAMBDA raw : [raw |-> raw, err |-> "nil", h |-> [h1 EXCEPT !.Raw = raw]])
     ELSE Bind(formatV2TLVs(h.TLVs, a.buf, a.length), LAMBDA t :
          IF t.err # "nil" THEN [raw |-> <<>>, err |-> t.err, h |-> h1]
          ELSE Bind(formatV2Bytes(verAndCmd, afAndTp, t.length, t.payload, wantChecksum),
               LAMBDA f : [raw |-> f.raw, err |-> f.err, h |-> [h1 EXCEPT !.Raw = f.raw]]))))

\* formatHeader
formatHeader(h, wantChecksum) ==
  IF h = NilValue THEN [raw |-> <<>>, err |-> "header instance is nil", h |-> h]
  ELSE IF h.SrcAddr = NilValue \/ h.DstAddr = NilValue
  THEN [raw |-> <<>>, err |-> "header is not found source and destination address",
        h |-> h]
  ELSE IF h.Version = Version1 THEN formatV1(h)
  ELSE IF h.Version = Version2 THEN formatV2(h, wantChecksum)
  ELSE [raw |-> <<>>, err |-> ErrUnknownVersion, h |-> h]

\* Header.Format
Format(h) == formatHeader(h, FALSE)

\* Header.FormatWithChecksum
FormatWithChecksum(h) == formatHeader(h, TRUE)

\* ------------------------------------------------------------------------
\* The byte streams a peer sends, as the segments in which they arrive
\* ------------------------------------------------------------------------

\* "GET /\r\n": application data
AppData == <<71, 69, 84, 32, 47, 13, 10>>

\* "PROXY TCP4 192.0.2.1 192.0.2.2 11 22\r\n"
V1Proxy ==
  <<80, 82, 79, 88, 89, 32, 84, 67, 80, 52, 32, 49, 57, 50, 46, 48, 46, 50,
    46, 49, 32, 49, 57, 50, 46, 48, 46, 50, 46, 50, 32, 49, 49, 32, 50, 50,
    13, 10>>

\* "PROXY UNKNOWN\r\n"
V1Local == <<80, 82, 79, 88, 89, 32, 85, 78, 75, 78, 79, 87, 78, 13, 10>>

\* "PROXY TCP4 192.0.2.1\r\n": a version 1 line without ports
V1Bad ==
  <<80, 82, 79, 88, 89, 32, 84, 67, 80, 52, 32, 49, 57, 50, 46, 48, 46, 50,
    46, 49, 13, 10>>

\* 192.0.2.1:11 -> 192.0.2.2:22 as a version 2 address block
V2Addrs == <<192, 0, 2, 1, 192, 0, 2, 2, 0, 11, 0, 22>>

\* version 2, PROXY, TCP over IPv4, no TLV
V2Proxy == v2Signature \o <<33, 17, 0, 12>> \o V2Addrs

\* version 2, LOCAL, TCP over IPv4, empty payload
V2Local == v2Signature \o <<32, 17, 0, 0>>

\* version 2, PROXY, TCP over IPv4, with a CRC-32c TLV holding the checksum
V2ProxyCrc ==
  v2Signature \o <<33, 17, 0, 19>> \o V2Addrs \o <<3, 0, 4, 63, 14, 18, 81>>

\* the same header with a checksum that does not match
V2ProxyBadCrc ==
  v2Signature \o <<33, 17, 0, 19>> \o V2Addrs \o <<3, 0, 4, 63, 14, 18, 80>>

\* The streams: each is the sequence of segments the peer sends.
Wires ==
  { <<V1Proxy \o AppData>>,            \* header and data in one segment
    <<V1Proxy, AppData>>,              \* header, then data
    <<V1Local \o AppData>>,
    <<AppData>>,                       \* no PROXY header at all
    <<V1Bad>>,
    <<V2Proxy \o AppData>>,
    <<Take(V2Proxy, 20), Drop(V2Proxy, 20)>>,
    <<V2Local, AppData>>,
    <<V2ProxyCrc, AppData>>,
    <<V2ProxyBadCrc>>,
    <<Take(V1Proxy, 8)>>,              \* the start of a header, then nothing
    <<>> }                             \* a silent peer

\* the addresses of the underlying connection
connLocalAddr == TCPAddr(IPv4(10, 0, 0, 1), 443)
connRemoteAddr == TCPAddr(IPv4(10, 0, 0, 2), 50000)

\* ------------------------------------------------------------------------
\* src/option.go, NewConn and Listener.Accept
\* ------------------------------------------------------------------------

defaultReadHeaderTimeout == 5

\* time.Time{}: the zero time, which means "no deadline"
ZeroTime == 0

\* A header timeout a caller passes to WithReadHeaderTimeout (seconds).
ShortTimeout == 2

\* The distance of the deadlines a caller sets (seconds).
CallerTimeout == 3

\* An Option assigns one field of the Conn.
WithReadHeaderTimeout(duration) == [field |-> "readHeaderTimeout", value |-> duration]
WithDisableProxyProto(disable) == [field |-> "disableProxyProtocol", value |-> disable]
WithPostReadHeader(fn) == [field |-> "postFunc", value |-> fn]
WithCRC32cChecksum(want) == [field |-> "checksum", value |-> want]

RECURSIVE ApplyOptions(_, _)
\* for _, o := range opts { o(c) }
ApplyOptions(cc, opts) ==
  IF opts = <<>> THEN cc
  ELSE ApplyOptions([cc EXCEPT ![Head(opts).field] = Head(opts).value], Tail(opts))

\* NewConn.  postFunc is TRUE when a function is installed.  readHeaderOnce
\* is a sync.Once: its done flag and the goroutine holding its mutex (0 when
\* free).  The field reader that NewConn fills is never used afterwards.
NewConn(opts) ==
  ApplyOptions([Header |-> NilValue,
                readHeaderOnce |-> [done |-> FALSE, m |-> 0],
                readHeaderTimeout |-> 0,
                originalDeadline |-> ZeroTime,
                readHeaderErr |-> "nil",
                disableProxyProtocol |-> FALSE,
                checksum |-> FALSE,
                postFunc |-> FALSE], opts)

\* Listener.Accept
Accept(options) ==
  LET conn == NewConn(options)
  IN IF conn.readHeaderTimeout <= 0
     THEN [conn EXCEPT !.readHeaderTimeout = defaultReadHeaderTimeout]
     ELSE conn

\* The connections of the model: how each is wrapped, and the stream its
\* peer sends.
Scenarios ==
     {[conn |-> Accept(<<>>), wire |-> w] : w \in Wires}
  \cup
     {[conn |-> Accept(<<WithCRC32cChecksum(TRUE)>>), wire |-> w] :
        w \in {<<V2ProxyCrc, AppData>>, <<V2ProxyBadCrc>>, <<V1Proxy, AppData>>,
               \* version 2, PROXY, with one TLV of type 234 and no checksum
               <<v2Signature \o <<33, 17, 0, 19>> \o V2Addrs
                 \o <<234, 0, 4, 118, 99, 112, 101>>, AppData>>}}
  \cup
     {[conn |-> Accept(<<WithPostReadHeader(TRUE)>>), wire |-> w] :
        w \in {<<V1Bad>>, <<AppData>>}}
  \cup
     {[conn |-> Accept(<<WithDisableProxyProto(TRUE), WithPostReadHeader(TRUE)>>),
       wire |-> <<V1Proxy \o AppData>>],
      [conn |-> Accept(<<WithReadHeaderTimeout(ShortTimeout)>>), wire |-> <<Take(V1Proxy, 8)>>],
      [conn |-> NewConn(<<>>), wire |-> <<V1Proxy, AppData>>],
      [conn |-> NewConn(<<WithReadHeaderTimeout(ShortTimeout), WithPostReadHeader(TRUE)>>),
       wire |-> <<V2Proxy \o AppData>>]}

\* ReadHeader on the bufio.Reader the function body creates, fed with the
\* results of the Reads of the underlying connection made so far: either it
\* has returned, or it waits in one more Read (starved)
Parse(chunks) ==
  Bind(ReadHeader(NewReader(chunks)), LAMBDA r :
  [starved |-> r.rd.starved, want |-> r.rd.want, header |-> r.header, err |-> r.err])

\* ------------------------------------------------------------------------
\* The state
\* ------------------------------------------------------------------------

VARIABLES
  c,          \* the fields of the *Conn
  rawConn,    \* the underlying net.Conn: bytes received and not yet read,
              \* its deadlines, whether and how often it was closed
  peer,       \* the peer: the stream it sends, what is still unsent
  now,        \* the clock
  pc,         \* where each goroutine is in its call
  op,         \* the trigger call each goroutine is in, "none" outside one
  ret,        \* what the last finished trigger call of each goroutine returned
  calls,      \* number of calls made so far
  body,       \* the locals of the function readHeader hands to the Once:
              \* the saved deadline, the Reads its bufio.Reader has made and
              \* where ReadHeader stands with them, then (header, err) and
              \* the calls of postFunc
  delivered,  \* the bytes the Reads on the wrapper have returned, in order
  parses,     \* number of times the function body reached ReadHeader
  codec       \* a header or a byte string outside any connection, and the
              \* calls of Format, ReadHeader and ChecksumCRC32c made on it

vars == <<c, rawConn, peer, now, pc, op, ret, calls, body, delivered, parses, codec>>

Threads == 1..NThreads

\* no header and no bytes are being formatted or parsed outside the connection
NoCodec == [input |-> NilValue, want |-> FALSE, h |-> NilValue, raw |-> <<>>,
            err |-> "nil", valid |-> TRUE, ops |-> <<>>, cut |-> 0, rest |-> <<>>,
            vpce |-> [val |-> <<>>, panic |-> FALSE]]

NoRet ==
  [op |-> "none", n |-> 0, err |-> "nil", addr |-> NilValue,
   Header |-> NilValue, Err |-> "nil"]

Init ==
  /\ \E s \in Scenarios :
        /\ c = s.conn
        /\ peer = [wire |-> s.wire, unsent |-> s.wire, closed |-> FALSE]
  /\ rawConn = [recv |-> <<>>, readDeadline |-> ZeroTime,
                writeDeadline |-> ZeroTime, closed |-> FALSE, closes |-> 0]
  /\ now = 1
  /\ pc = [t \in Threads |-> "idle"]
  /\ op = [t \in Threads |-> "none"]
  /\ ret = [t \in Threads |-> NoRet]
  /\ calls = 0
  /\ body = [originalDeadline |-> ZeroTime, chunks |-> <<>>, parse |-> Parse(<<>>),
             header |-> NilValue, err |-> "nil", posted |-> <<>>]
  /\ delivered = <<>>
  /\ parses = 0
  /\ codec = NoCodec

\* ------------------------------------------------------------------------
\* The underlying net.Conn
\* ------------------------------------------------------------------------

\* a deadline that has passed
Expired(deadline) == deadline # ZeroTime /\ now >= deadline

\* c.Conn.Read returns (it blocks otherwise)
ConnReadable ==
  \/ rawConn.closed
  \/ Expired(rawConn.readDeadline)
  \/ rawConn.recv # <<>>
  \/ peer.closed

\* c.Conn.Read into a slice of n bytes: [data, err]
ConnRead(n) ==
  IF rawConn.closed THEN [data |-> <<>>, err |-> ErrClosed]
  ELSE IF Expired(rawConn.readDeadline) THEN [data |-> <<>>, err |-> ErrDeadlineExceeded]
  ELSE IF rawConn.recv # <<>> THEN [data |-> Take(rawConn.recv, n), err |-> "nil"]
  ELSE [data |-> <<>>, err |-> EOF]

\* ------------------------------------------------------------------------
\* src/conn.go: readHeader
\* ------------------------------------------------------------------------

\* A Once that lets a caller pass while another goroutine runs the function.
OnceDoneOrBusy(o) == o.done \/ o.m # 0

\* sync.Once.Do, fast path: the call returns at once when done is set
OnceDone(o) == o.done

\* A Once that does not look at done again once it holds the mutex.
OnceRunsUnchecked(o) == TRUE

\* sync.Once.doSlow: under the mutex, the function runs if done is not set
OnceRuns(o) == ~o.done

\* A deferred call that reads the field when it runs instead of the copy.
DeferredDeadlineOfField(originalDeadline, cc) == cc.originalDeadline

\* The argument of the deferred SetReadDeadline is evaluated when the defer
\* statement runs: it is the local copy, whatever the field holds later.
DeferredDeadline(originalDeadline, cc) == originalDeadline

\* A body that assigns the header before it verifies the checksum.
StoreHeaderBeforeChecksum(cc, header, err) ==
  IF err = "nil" /\ header # NilValue
  THEN IF cc.checksum /\ ~ChecksumCRC32c(header)
       THEN [cc EXCEPT !.Header = header, !.readHeaderErr = ErrValidateCRC32cChecksum]
       ELSE [cc EXCEPT !.Header = header]
  ELSE IF err = ErrNoProxyProtocol THEN cc
  ELSE [cc EXCEPT !.readHeaderErr = err]

\* A body that records every error of ReadHeader.
StoreHeaderEveryErr(cc, header, err) ==
  IF err = "nil" /\ header # NilValue
  THEN IF cc.checksum /\ ~ChecksumCRC32c(header)
       THEN [cc EXCEPT !.readHeaderErr = ErrValidateCRC32cChecksum]
       ELSE [cc EXCEPT !.Header = header]
  ELSE [cc EXCEPT !.readHeaderErr = err]

\* A body that records no error of ReadHeader.
StoreHeaderNoErr(cc, header, err) ==
  IF err = "nil" /\ header # NilValue
  THEN IF cc.checksum /\ ~ChecksumCRC32c(header)
       THEN [cc EXCEPT !.readHeaderErr = ErrValidateCRC32cChecksum]
       ELSE [cc EXCEPT !.Header = header]
  ELSE cc

\* the end of the function body: what the Conn keeps of (header, err)
StoreHeader(cc, header, err) ==
  IF err = "nil" /\ header # NilValue
  THEN IF cc.checksum /\ ~ChecksumCRC32c(header)
       THEN [cc EXCEPT !.readHeaderErr = ErrValidateCRC32cChecksum]
       ELSE [cc EXCEPT !.Header = header]
  ELSE IF err = ErrNoProxyProtocol THEN cc
  ELSE [cc EXCEPT !.readHeaderErr = err]

\* A body that does not look at the disable flag.
SkipsHeaderNever(cc) == FALSE

\* if c.disableProxyProtocol { return }: the body returns before anything
\* else
SkipsHeader(cc) == cc.disableProxyProtocol

\* Goroutine t may make the next call: it is the first goroutine not inside
\* a call (goroutines are interchangeable), and calls remain.
MayCall(t) ==
  /\ pc[t] = "idle"
  /\ \A u \in Threads : u < t => pc[u] # "idle"
  /\ calls < MaxCalls

\* A trigger call of goroutine t begins: c.readHeader(), readHeaderOnce.Do.
Call(t, o) ==
  /\ MayCall(t)
  /\ calls' = calls + 1
  /\ op' = [op EXCEPT ![t] = o]
  /\ pc' = [pc EXCEPT ![t] = IF OnceDone(c.readHeaderOnce) THEN "readHeaderDone"
                                                            ELSE "doSlow"]
  /\ UNCHANGED <<c, rawConn, peer, now, ret, body, delivered, parses, codec>>

\* Goroutine t takes the mutex of the Once.  If the header was read in the
\* meantime it leaves at once; if the protocol is disabled the function
\* returns at once; otherwise the function saves the deadline, sets the
\* header deadline and starts ReadHeader on a new bufio.Reader.
readHeaderEnter(t) ==
  /\ pc[t] = "doSlow"
  /\ c.readHeaderOnce.m = 0
  /\ IF ~OnceRuns(c.readHeaderOnce)
     THEN /\ pc' = [pc EXCEPT ![t] = "readHeaderDone"]
          /\ UNCHANGED <<c, rawConn, body, parses>>
     ELSE IF SkipsHeader(c)
     THEN /\ pc' = [pc EXCEPT ![t] = "readHeaderDone"]
          /\ c' = [c EXCEPT !.readHeaderOnce.done = TRUE]
          /\ UNCHANGED <<rawConn, body, parses>>
     ELSE /\ pc' = [pc EXCEPT ![t] = "ReadHeader"]
          /\ c' = [c EXCEPT !.readHeaderOnce.m = t,
                            !.originalDeadline = now + c.readHeaderTimeout]
          /\ rawConn' = [rawConn EXCEPT !.readDeadline = now + c.readHeaderTimeout]
          /\ body' = [body EXCEPT !.originalDeadline = c.originalDeadline,
                                  !.chunks = <<>>,
                                  !.parse = Parse(<<>>)]
          /\ parses' = parses + 1
  /\ UNCHANGED <<peer, now, op, ret, calls, delivered, codec>>

\* ReadHeader needs more bytes: the bufio.Reader reads the underlying
\* connection once, when that Read returns.
readHeaderFill(t) ==
  /\ pc[t] = "ReadHeader"
  /\ body.parse.starved
  /\ ConnReadable
  /\ LET x == ConnRead(body.parse.want)
     IN /\ body' = [body EXCEPT !.chunks = Append(@, x),
                                !.parse = Parse(Append(body.chunks, x))]
        /\ rawConn' = [rawConn EXCEPT !.recv = Drop(@, Len(x.data))]
  /\ UNCHANGED <<c, peer, now, pc, op, ret, calls, delivered, parses, codec>>

\* ReadHeader has returned: postFunc, the outcome is stored, the deferred
\* SetReadDeadline runs, the Once is done and its mutex released.
readHeaderExit(t) ==
  /\ pc[t] = "ReadHeader"
  /\ ~body.parse.starved
  /\ LET header == body.parse.header
         err == body.parse.err
         deadline == DeferredDeadline(body.originalDeadline, c)
     IN /\ body' = [body EXCEPT !.header = header, !.err = err,
                      !.posted = IF c.postFunc
                                 THEN Append(@, [header |-> header, err |-> err])
                                 ELSE @]
        /\ c' = [StoreHeader(c, header, err) EXCEPT
                   !.originalDeadline = deadline,
                   !.readHeaderOnce = [done |-> TRUE, m |-> 0]]
        /\ rawConn' = [rawConn EXCEPT !.readDeadline = deadline]
  /\ pc' = [pc EXCEPT ![t] = "readHeaderDone"]
  /\ UNCHANGED <<peer, now, op, ret, calls, delivered, parses, codec>>

\* ------------------------------------------------------------------------
\* src/conn.go: the methods of Conn
\* ------------------------------------------------------------------------

\* A LocalAddr with the test of readHeaderErr turned around.
LocalAddrIfErr(cc) ==
  IF /\ cc.Header # NilValue
     /\ cc.Header.Command # CMD_LOCAL
     /\ cc.Header.DstAddr # NilValue
     /\ cc.readHeaderErr # "nil"
  THEN cc.Header.DstAddr
  ELSE connLocalAddr

\* Conn.LocalAddr after c.readHeader()
LocalAddr(cc) ==
  IF /\ cc.Header # NilValue
     /\ cc.Header.Command # CMD_LOCAL
     /\ cc.Header.DstAddr # NilValue
     /\ cc.readHeaderErr = "nil"
  THEN cc.Header.DstAddr
  ELSE connLocalAddr

\* Conn.RemoteAddr after c.readHeader()
RemoteAddr(cc) ==
  IF /\ cc.Header # NilValue
     /\ cc.Header.Command # CMD_LOCAL
     /\ cc.Header.SrcAddr # NilValue
     /\ cc.readHeaderErr # "nil"
  THEN cc.Header.SrcAddr
  ELSE connRemoteAddr

\* Conn.Err
Err(cc) == cc.readHeaderErr

\* Conn.RawHeader: the raw bytes of the header, a nil slice (no bytes) when
\* no header is stored
RawHeader(cc) == IF cc.Header = NilValue THEN <<>> ELSE cc.Header.Raw

\* Conn.TLVs: the TLVs of the header, a nil slice (no TLV) when no header is
\* stored
TLVs(cc) == IF cc.Header = NilValue THEN <<>> ELSE cc.Header.TLVs

\* tlv.Value[1:] as a string: [val, panic]; the slice expression fails at run
\* time (slice bounds out of range) when the value is empty
ValueFrom1(tlv) ==
  IF Len(tlv.Value) < 1 THEN [val |-> <<>>, panic |-> TRUE]
  ELSE [val |-> Tail(tlv.Value), panic |-> FALSE]

\* Conn.GetVpceID: [val, panic]
GetVpceID(cc) ==
  IF cc.Header = NilValue \/ Len(cc.Header.TLVs) = 0 THEN [val |-> <<>>, panic |-> FALSE]
  ELSE IF \A i \in DOMAIN cc.Header.TLVs : IsRegistered(cc.Header.TLVs[i])
  THEN [val |-> <<>>, panic |-> FALSE]
  ELSE ValueFrom1(cc.Header.TLVs[CHOOSE i \in DOMAIN cc.Header.TLVs :
                                   /\ ~IsRegistered(cc.Header.TLVs[i])
                                   /\ \A j \in 1..(i - 1) : IsRegistered(cc.Header.TLVs[j])])

\* Conn.GetVpceIDWithType: [val, panic]
GetVpceIDWithType(cc, typ, subType) ==
  IF cc.Header = NilValue \/ Len(cc.Header.TLVs) = 0 THEN [val |-> <<>>, panic |-> FALSE]
  ELSE IF \A i \in DOMAIN cc.Header.TLVs : cc.Header.TLVs[i].Type # typ
  THEN [val |-> <<>>, panic |-> FALSE]
  ELSE Bind(cc.Header.TLVs[CHOOSE i \in DOMAIN cc.Header.TLVs :
                             /\ cc.Header.TLVs[i].Type = typ
                             /\ \A j \in 1..(i - 1) : cc.Header.TLVs[j].Type # typ],
            LAMBDA tlv : IF subType = 0 THEN [val |-> tlv.Value, panic |-> FALSE]
                         ELSE ValueFrom1(tlv))

\* what a trigger call hands back, with what its caller then finds in the Conn
Returned(o, n, err, addr) ==
  [op |-> o, n |-> n, err |-> err, addr |-> addr,
   Header |-> c.Header, Err |-> Err(c)]

\* Conn.Read after c.readHeader(): c.Conn.Read(b), with b of defaultBufSize
\* bytes, when that Read returns
ReadReturn(t) ==
  /\ pc[t] = "readHeaderDone"
  /\ op[t] = "Read"
  /\ ConnReadable
  /\ LET x == ConnRead(defaultBufSize)
     IN /\ rawConn' = [rawConn EXCEPT !.recv = Drop(@, Len(x.data))]
        /\ delivered' = delivered \o x.data
        /\ ret' = [ret EXCEPT ![t] = Returned("Read", Len(x.data), x.err, NilValue)]
  /\ pc' = [pc EXCEPT ![t] = "idle"]
  /\ op' = [op EXCEPT ![t] = "none"]
  /\ UNCHANGED <<c, peer, now, calls, body, parses, codec>>

\* Conn.LocalAddr and Conn.RemoteAddr after c.readHeader()
AddrReturn(t) ==
  /\ pc[t] = "readHeaderDone"
  /\ op[t] \in {"LocalAddr", "RemoteAddr"}
  /\ ret' = [ret EXCEPT ![t] =
               Returned(op[t], 0, "nil",
                        IF op[t] = "LocalAddr" THEN LocalAddr(c) ELSE RemoteAddr(c))]
  /\ pc' = [pc EXCEPT ![t] = "idle"]
  /\ op' = [op EXCEPT ![t] = "none"]
  /\ UNCHANGED <<c, rawConn, peer, now, calls, body, delivered, parses, codec>>

\* Conn.SetDeadline
SetDeadline(t, d) ==
  /\ MayCall(t)
  /\ calls' = calls + 1
  /\ c' = [c EXCEPT !.originalDeadline = d]
  /\ rawConn' = [rawConn EXCEPT !.readDeadline = d, !.writeDeadline = d]
  /\ UNCHANGED <<peer, now, pc, op, ret, body, delivered, parses, codec>>

\* Conn.SetReadDeadline
SetReadDeadline(t, d) ==
  /\ MayCall(t)
  /\ calls' = calls + 1
  /\ c' = [c EXCEPT !.originalDeadline = d]
  /\ rawConn' = [rawConn EXCEPT !.readDeadline = d]
  /\ UNCHANGED <<peer, now, pc, op, ret, body, delivered, parses, codec>>

\* Close is promoted from the embedded net.Conn: the caller closes the
\* underlying connection.
Close(t) ==
  /\ MayCall(t)
  /\ calls' = calls + 1
  /\ rawConn' = [rawConn EXCEPT !.closed = TRUE, !.closes = @ + 1]
  /\ UNCHANGED <<c, peer, now, pc, op, ret, body, delivered, parses, codec>>

\* ------------------------------------------------------------------------
\* The peer and the clock
\* ------------------------------------------------------------------------

\* the next segment of the stream arrives
PeerSend ==
  /\ peer.unsent # <<>>
  /\ ~rawConn.closed
  /\ peer' = [peer EXCEPT !.unsent = Tail(@)]
  /\ rawConn' = [rawConn EXCEPT !.recv = @ \o Head(peer.unsent)]
  /\ UNCHANGED <<c, now, pc, op, ret, calls, body, delivered, parses, codec>>

\* the peer closes its end after it has sent the whole stream
PeerClose ==
  /\ peer.unsent = <<>>
  /\ ~peer.closed
  /\ peer' = [peer EXCEPT !.closed = TRUE]
  /\ UNCHANGED <<c, rawConn, now, pc, op, ret, calls, body, delivered, parses, codec>>

\* time passes
Tick ==
  /\ now + defaultReadHeaderTimeout <= MaxTime
  /\ now' = now + defaultReadHeaderTimeout
  /\ UNCHANGED <<c, rawConn, peer, pc, op, ret, calls, body, delivered, parses, codec>>

Next ==
  \/ \E t \in Threads : \E o \in {"Read", "LocalAddr", "RemoteAddr"} : Call(t, o)
  \/ \E t \in Threads : readHeaderEnter(t)
  \/ \E t \in Threads : readHeaderFill(t)
  \/ \E t \in Threads : readHeaderExit(t)
  \/ \E t \in Threads : ReadReturn(t)
  \/ \E t \in Threads : AddrReturn(t)
  \/ \E t \in Threads : SetDeadline(t, now + CallerTimeout)
  \/ \E t \in Threads : \E d \in {ZeroTime, now + CallerTimeout} : SetReadDeadline(t, d)
  \/ \E t \in Threads : Close(t)
  \/ PeerSend
  \/ PeerClose
  \/ Tick

Spec == Init /\ [][Next]_vars

\* ------------------------------------------------------------------------
\* Properties of the connection wrapper
\* ------------------------------------------------------------------------

RECURSIVE Flatten(_)
\* the bytes of a sequence of segments
Flatten(segs) == IF segs = <<>> THEN <<>> ELSE Head(segs) \o Flatten(Tail(segs))

\* the whole stream of the peer
Stream == Flatten(peer.wire)

\* the bytes of the stream a Read on the wrapper has returned or can still
\* return: delivered, received and unread, not yet sent
Readable == delivered \o rawConn.recv \o Flatten(peer.unsent)

\* goroutine t is past c.readHeader() in a trigger call, or has returned
\* from one
PastHeader(t) == pc[t] = "readHeaderDone" \/ ret[t].op # "none"

\* C1: however the first calls of Read, LocalAddr and RemoteAddr interleave,
\* ReadHeader is attempted at most once on a connection, and a caller that is
\* past the header step finds it attempted exactly once (never, when the
\* protocol is disabled); no later call starts a second attempt.
C1_ParseOnce ==
  /\ parses <= 1
  /\ (\E t \in Threads : PastHeader(t))
       => parses = IF c.disableProxyProtocol THEN 0 ELSE 1

\* a goroutine that raced on the first call stands before the mutex of the
\* Once when the single parse has completed
C1_Witness ==
  \E t \in Threads : pc[t] = "doSlow" /\ c.readHeaderOnce.done /\ parses = 1

\* C2: no trigger call is past the header step while the parse is in
\* progress: for a caller past it the Once is done and no goroutine is in
\* ReadHeader, and what each caller finds on return is the cached Header and
\* the recorded error.
C2_BlockUntilParsed ==
  \A t \in Threads :
    PastHeader(t) =>
      /\ c.readHeaderOnce.done
      /\ \A u \in Threads : pc[u] # "ReadHeader"
      /\ ret[t].op # "none" => ret[t].Header = c.Header /\ ret[t].Err = Err(c)

\* two callers have returned and both found the parsed header
C2_Witness ==
  /\ \A t \in Threads : ret[t].op # "none"
  /\ c.Header # NilValue
  /\ parses = 1

\* C3: when a header was parsed, the header step took exactly the bytes of
\* the header from the connection: what the Reads returned and can still
\* return is the stream after the header.
C3_HeaderBytesOnly ==
  (c.readHeaderOnce.done /\ c.Header # NilValue)
    => Readable = Drop(Stream, Len(c.Header.Raw))

\* C4: when ReadHeader reports ErrNoProxyProtocol, what the Reads returned
\* and can still return is the whole stream, from its first byte.
C4_NoHeaderPassThrough ==
  (c.readHeaderOnce.done /\ body.err = ErrNoProxyProtocol) => Readable = Stream

\* C5: after a PROXY header was parsed and no error recorded, RemoteAddr
\* returns the source address of the header.
C5_RemoteAddrOfHeader ==
  \A t \in Threads :
    (/\ ret[t].op = "RemoteAddr"
     /\ ret[t].Header # NilValue
     /\ ret[t].Header.Command = CMD_PROXY
     /\ ret[t].Err = "nil")
      => ret[t].addr = ret[t].Header.SrcAddr

\* C6: after a PROXY header was parsed and no error recorded, LocalAddr
\* returns the destination address of the header, not the address of the
\* underlying connection.
C6_LocalAddrOfHeader ==
  \A t \in Threads :
    (/\ ret[t].op = "LocalAddr"
     /\ ret[t].Header # NilValue
     /\ ret[t].Header.Command = CMD_PROXY
     /\ ret[t].Err = "nil")
      => ret[t].addr = ret[t].Header.DstAddr /\ ret[t].addr # connLocalAddr

\* LocalAddr has returned on a connection with a parsed PROXY header
C6_Witness ==
  \E t \in Threads :
    /\ ret[t].op = "LocalAddr"
    /\ ret[t].Header # NilValue
    /\ ret[t].Header.Command = CMD_PROXY
    /\ ret[t].Err = "nil"

\* C7: when no header was parsed, or the header is LOCAL, or an error was
\* recorded, LocalAddr and RemoteAddr return the addresses of the underlying
\* connection.
C7_TransportAddrs ==
  \A t \in Threads :
    (/\ ret[t].op \in {"LocalAddr", "RemoteAddr"}
     /\ \/ ret[t].Header = NilValue
        \/ ret[t].Header.Command = CMD_LOCAL
        \/ ret[t].Err # "nil")
      => ret[t].addr = IF ret[t].op = "LocalAddr" THEN connLocalAddr ELSE connRemoteAddr

\* RemoteAddr has returned on a connection with a recorded error
C7_Witness ==
  \E t \in Threads : ret[t].op = "RemoteAddr" /\ ret[t].Err # "nil"

\* the step in which the function body starts the header read
ReadStarts == \E t \in Threads : pc[t] = "doSlow" /\ pc'[t] = "ReadHeader"

\* the step in which the function body returns from the header read
ReadExits == \E t \in Threads : pc[t] = "ReadHeader" /\ pc'[t] = "readHeaderDone"

\* C8: the header read saves the deadline the wrapper remembers when it
\* starts, and however it ends (header, no header, error, deadline expired)
\* it leaves the read deadline of the underlying connection and the deadline
\* the wrapper remembers at that saved value.
C8_DeadlineRestored ==
  [][/\ ReadStarts => body'.originalDeadline = c.originalDeadline
     /\ ReadExits => /\ rawConn'.readDeadline = body.originalDeadline
                     /\ c'.originalDeadline = body.originalDeadline]_vars

\* the header read has ended by deadline expiry on a connection whose caller
\* had set a deadline, and that deadline is in force again
C8_Witness ==
  /\ c.readHeaderOnce.done
  /\ body.err = ErrDeadlineExceeded
  /\ body.originalDeadline # ZeroTime
  /\ rawConn.readDeadline = body.originalDeadline
  /\ c.originalDeadline = body.originalDeadline

\* C9: when ReadHeader reports ErrNoProxyProtocol nothing is recorded: from
\* then on Err() is nil and the Header is absent.
C9_NoProtocolNotRecorded ==
  body.err = ErrNoProxyProtocol => Err(c) = "nil" /\ c.Header = NilValue

\* ReadHeader reported ErrNoProxyProtocol and a call has returned since
C9_Witness ==
  /\ body.err = ErrNoProxyProtocol
  /\ \E t \in Threads : ret[t].op # "none"

\* a step of a caller that calls Close: the only step that closes the
\* underlying connection
CallerCloses ==
  /\ calls' = calls + 1
  /\ rawConn'.closes = rawConn.closes + 1
  /\ UNCHANGED <<c, pc, op, body, parses>>

\* C10: an error of ReadHeader other than ErrNoProxyProtocol is what Err()
\* returns from then on, a recorded error never changes, and the underlying
\* connection is closed only by a Close call of the caller.
C10_ErrRecordedConnOpen ==
  /\ [](body.err \notin {"nil", ErrNoProxyProtocol} => Err(c) = body.err)
  /\ [][/\ c.readHeaderErr # "nil" => c'.readHeaderErr = c.readHeaderErr
        /\ rawConn'.closes # rawConn.closes => CallerCloses]_vars

\* a malformed header was recorded, a call has returned with it, and the
\* connection was never closed
C10_Witness ==
  /\ body.err = ErrNotFoundAddressOrPort
  /\ \E t \in Threads : ret[t].op # "none" /\ ret[t].Err = body.err
  /\ ~rawConn.closed

\* a header was parsed on a connection that requires the checksum, and its
\* CRC-32c TLV does not verify
BadChecksum ==
  /\ c.readHeaderOnce.done
  /\ c.checksum
  /\ body.err = "nil"
  /\ body.header # NilValue
  /\ ~ChecksumCRC32c(body.header)

\* the address methods that have returned gave the addresses of the
\* underlying connection
TransportAddrsReturned ==
  \A t \in Threads :
    ret[t].op \in {"LocalAddr", "RemoteAddr"}
      => ret[t].addr = IF ret[t].op = "LocalAddr" THEN connLocalAddr ELSE connRemoteAddr

\* C11 as stated: when the checksum is required and the parsed header fails
\* verification, the error is recorded and the parsed header is kept: Header,
\* RawHeader() and TLVs() expose it, while the address methods return the
\* addresses of the underlying connection.
C11_HeaderKeptOnBadChecksum ==
  BadChecksum =>
    /\ Err(c) = ErrValidateCRC32cChecksum
    /\ c.Header = body.header
    /\ RawHeader(c) = body.header.Raw
    /\ TLVs(c) = body.header.TLVs
    /\ TransportAddrsReturned

\* C11 amended: when the checksum is required and the parsed header fails
\* verification, the error is recorded and the parsed header is discarded:
\* Header stays absent, RawHeader() and TLVs() return nil, and the address
\* methods return the addresses of the underlying connection.
C11_HeaderDroppedOnBadChecksum ==
  BadChecksum =>
    /\ Err(c) = ErrValidateCRC32cChecksum
    /\ c.Header = NilValue
    /\ RawHeader(c) = <<>>
    /\ TLVs(c) = <<>>
    /\ TransportAddrsReturned

\* the checksum of a parsed header did not verify, and both address methods
\* have returned since
C11_Witness ==
  /\ BadChecksum
  /\ \E t \in Threads : ret[t].op = "LocalAddr"
  /\ \E t \in Threads : ret[t].op = "RemoteAddr"

\* a step of the header step of a trigger call: the call enters
\* readHeaderOnce.Do, or leaves it
HeaderStep ==
  \E t \in Threads :
    /\ pc[t] \in {"idle", "doSlow"}
    /\ pc'[t] \in {"doSlow", "readHeaderDone"}
    /\ pc'[t] # pc[t]

\* C12: with the disable flag set the header step does nothing.  ReadHeader
\* is never attempted, the function body makes no Read of the underlying
\* connection, the observer callback is not called, Header stays absent and
\* Err() nil; the whole stream, header bytes included, is what the Reads
\* return, and the address methods return the transport addresses.  No step
\* of the header step changes the underlying connection (its deadlines, its
\* unread bytes) or the deadline the wrapper remembers.
C12_DisabledDoesNothing ==
  /\ [](c.disableProxyProtocol =>
          /\ parses = 0
          /\ body.chunks = <<>>
          /\ body.posted = <<>>
          /\ c.Header = NilValue
          /\ Err(c) = "nil"
          /\ Readable = Stream
          /\ TransportAddrsReturned)
  /\ [][(c.disableProxyProtocol /\ HeaderStep) =>
          /\ UNCHANGED <<rawConn, body, delivered>>
          /\ c'.originalDeadline = c.originalDeadline]_vars

\* on a disabled connection with an observer callback the header step is
\* over, a caller had set a read deadline before it, and a Read has returned
\* the whole stream, the bytes of the PROXY line first
C12_Witness ==
  /\ c.disableProxyProtocol
  /\ c.postFunc
  /\ c.readHeaderOnce.done
  /\ c.originalDeadline # ZeroTime
  /\ delivered = Stream
  /\ IsPrefix(V1Proxy, delivered)


\* the header read waits in a Read of the underlying connection that has
\* nothing to return: no byte, no end of stream, no expired deadline
HeaderReadWaits ==
  /\ \E t \in Threads : pc[t] = "ReadHeader" /\ body.parse.starved
  /\ ~ConnReadable

\* C13: the header step on a connection accepted through the Listener cannot
\* block forever: whenever its read waits for the peer, a read deadline is
\* set on the underlying connection, so that the wait ends when the peer
\* sends nothing more; and when the wait has ended that way the failure is
\* what Err() returns.
C13_HeaderWaitBounded ==
  c.readHeaderTimeout > 0 =>
    /\ HeaderReadWaits => rawConn.readDeadline # ZeroTime
    /\ body.err = ErrDeadlineExceeded => Err(c) = ErrDeadlineExceeded

\* ------------------------------------------------------------------------
\* Format, ReadHeader and ChecksumCRC32c called on their own, on a header a
\* caller has built or on the bytes a peer has sent
\* ------------------------------------------------------------------------

\* the most calls made on one input
MaxCodecOps == 4

\* the headers given to Format and FormatWithChecksum: the LOCAL header of
\* each version (no family, no transport, no endpoints, no TLVs), and PROXY
\* headers as a caller builds them, &Header{...}, over pairs of endpoints
\* with the ports at the ends of the range and, for version 2, with the TLV
\* lists a caller may give: none, a TLV of an unregistered type with the value
\* "vcpe-ab", two TLVs, a checksum of the caller's, padding without value
Headers ==
  LET IPv6A == <<32, 1, 13, 184, 0, 0, 0, 0, 0, 0, 0, 0, 0, 0, 0, 1>>
      IPv6B == <<32, 1, 13, 184, 0, 0, 0, 0, 0, 0, 0, 0, 0, 0, 0, 2>>
      VpceValue == <<118, 99, 112, 101, 45, 97, 98>>
      TLVLists ==
        { <<>>,
          <<NewTLV(234, VpceValue)>>,
          <<NewTLV(PP2_TYPE_ALPN, <<104, 50>>), NewTLV(234, VpceValue)>>,
          <<NewTLV(PP2_TYPE_CRC32C, <<1, 2, 3, 4>>)>>,
          <<[Type |-> PP2_TYPE_NOOP, Length |-> 4, Value |-> <<>>]>> }
      TCPEndpoints ==
        { [af |-> AF_INET, tp |-> SOCK_STREAM,
           src |-> TCPAddr(IPv4(127, 0, 0, 1), 12345),
           dst |-> TCPAddr(IPv4(127, 0, 0, 1), 56789)],
          [af |-> AF_INET, tp |-> SOCK_STREAM,
           src |-> TCPAddr(IPv4(192, 0, 2, 1), 1),
           dst |-> TCPAddr(IPv4(192, 0, 2, 2), 65534)],
          [af |-> AF_INET, tp |-> SOCK_STREAM,
           src |-> TCPAddr(IPv4(192, 0, 2, 1), 65535),
           dst |-> TCPAddr(IPv4(192, 0, 2, 2), 443)],
          [af |-> AF_INET6, tp |-> SOCK_STREAM,
           src |-> TCPAddr(IPv6A, 12345), dst |-> TCPAddr(IPv6B, 443)],
          \* an IPv4 source and an IPv6 destination
          [af |-> AF_INET6, tp |-> SOCK_STREAM,
           src |-> TCPAddr(IPv4(192, 0, 2, 1), 11), dst |-> TCPAddr(IPv6B, 22)] }
      OtherEndpoints ==
        { [af |-> AF_INET, tp |-> SOCK_DGRAM,
           src |-> UDPAddr(IPv4(192, 0, 2, 1), 53),
           dst |-> UDPAddr(IPv4(192, 0, 2, 2), 5353)],
          [af |-> AF_UNIX, tp |-> SOCK_STREAM,
           src |-> UnixAddr("unix", <<47, 97>>), dst |-> UnixAddr("unix", <<47, 98>>)] }
      HeaderOf(ver, cmd, e, tlvs) ==
        [NewHeader(ver, cmd, e.af, e.tp, <<>>) EXCEPT
           !.SrcAddr = e.src, !.DstAddr = e.dst, !.TLVs = tlvs]
  IN   {NewHeader(ver, CMD_LOCAL, AF_UNSPEC, SOCK_UNSPEC, <<>>) : ver \in {Version1, Version2}}
  \cup {HeaderOf(Version1, CMD_PROXY, e, <<>>) : e \in TCPEndpoints}
  \cup {HeaderOf(Version2, CMD_PROXY, e, tlvs) :
          e \in TCPEndpoints \cup OtherEndpoints, tlvs \in TLVLists}
  \* TLVs that fill the payload: one of 65535 bytes encoded, two of 32763
  \* each, one that leaves room for 2 bytes more; a value of 65535 bytes;
  \* two TLVs of one type; a TLV with an empty value before and after another
  \cup {HeaderOf(Version2, CMD_PROXY,
                  [af |-> AF_INET, tp |-> SOCK_STREAM,
                   src |-> TCPAddr(IPv4(127, 0, 0, 1), 12345),
                   dst |-> TCPAddr(IPv4(127, 0, 0, 1), 56789)], tlvs) :
          tlvs \in { <<NewTLV(234, Zeros(65532))>>,
                     <<NewTLV(234, Zeros(32760)), NewTLV(235, Zeros(32760))>>,
                     <<NewTLV(234, Zeros(65518))>>,
                     <<NewTLV(234, Zeros(65535))>>,
                     <<NewTLV(234, <<1>>), NewTLV(234, <<2, 3>>), NewTLV(234, <<1>>)>>,
                     <<NewTLV(PP2_TYPE_UNIQUE_ID, <<>>), NewTLV(234, VpceValue)>>,
                     <<NewTLV(234, VpceValue), NewTLV(235, <<>>)>> }}

\* the byte strings given to ReadHeader: version 1 lines
\* "PROXY <tag> <src> <dst> <srcPort> <dstPort>\r\n" and version 2 headers
\* (signature, bytes 12 and 13, length, payload) with the port values at and
\* around the ends of the range, the LOCAL literals of the formatter, and
\* version 2 headers with each nibble of byte 13 unspecified
PeerBytes ==
  LET IPv6A == <<32, 1, 13, 184, 0, 0, 0, 0, 0, 0, 0, 0, 0, 0, 0, 1>>
      IPv6B == <<32, 1, 13, 184, 0, 0, 0, 0, 0, 0, 0, 0, 0, 0, 0, 2>>
      TextPorts == {0, 1, 65534, 65535, 65536}
      BinaryPorts == {0, 1, 65534, 65535}
      V1Line(tag, srcIP, dstIP, srcPort, dstPort) ==
        v1Prefix \o tag \o <<32>> \o IPString(srcIP) \o <<32>> \o IPString(dstIP)
        \o <<32>> \o Itoa(srcPort) \o <<32>> \o Itoa(dstPort) \o <<13, 10>>
      V2Bytes(verAndCmd, afAndTp, payload) ==
        v2Signature \o <<verAndCmd, afAndTp, Len(payload) \div 256, Len(payload) % 256>>
        \o payload
      V2Block4(srcPort, dstPort) ==
        <<192, 0, 2, 1, 192, 0, 2, 2>> \o PortBytes(srcPort) \o PortBytes(dstPort)
      V2Block6(srcPort, dstPort) ==
        IPv6A \o IPv6B \o PortBytes(srcPort) \o PortBytes(dstPort)
      Addr4 == <<32>> \o IPString(IPv4(192, 0, 2, 1))
      Addr6 == <<32>> \o IPString(IPv6A)
      Port11 == <<32, 49, 49>>
      Unterminated(n) == v1Prefix \o StrUNKNOWN \o <<32>> \o [i \in 1..(n - 14) |-> 120]
  IN   {V1Line(StrTCP4, IPv4(192, 0, 2, 1), IPv4(192, 0, 2, 2), p, 443) : p \in TextPorts}
  \cup {V1Line(StrTCP4, IPv4(192, 0, 2, 1), IPv4(192, 0, 2, 2), 443, p) : p \in TextPorts}
  \cup {V1Line(StrTCP6, IPv6A, IPv6B, 65535, 65535),
        V1Line(StrTCP6, IPv4(192, 0, 2, 1), IPv6B, 11, 22),
        V1Line(StrTCP6, IPv4(192, 0, 2, 1), IPv4(192, 0, 2, 2), 11, 22),
        V1Line(StrTCP4, IPv6A, IPv4(192, 0, 2, 2), 11, 22),
        V1Line(StrTCP4, IPv4(192, 0, 2, 1), IPv6B, 11, 22)}
  \cup {V2Bytes(33, 17, V2Block4(p, 443)) : p \in BinaryPorts}
  \cup {V2Bytes(33, 18, V2Block4(443, p)) : p \in BinaryPorts}
  \cup {V2Bytes(33, 33, V2Block6(p, p)) : p \in BinaryPorts}
  \cup {v1LocalValue, v2LocalValue, V2Local,
        V2Bytes(32, 33, <<>>),                   \* LOCAL, TCP over IPv6
        V2Bytes(32, 49, <<>>),                   \* LOCAL, stream over Unix
        V2Bytes(32, 17, V2Block4(11, 22)),       \* LOCAL with an address block
        V2Bytes(33, 17, <<>>),                   \* PROXY without payload
        V2Bytes(33, 0, <<>>),                    \* PROXY, nothing specified
        V2Bytes(32, 16, <<>>),                   \* LOCAL, IPv4, transport unspecified
        V2Bytes(32, 1, <<>>),                    \* LOCAL, stream, family unspecified
        V2Bytes(33, 16, V2Block4(11, 22)),       \* IPv4, transport unspecified
        V2Bytes(33, 1, V2Block4(11, 22)),        \* stream, family unspecified
        V2Bytes(33, 17, V2Block4(11, 22) \o TLVFormat(NewTLV(234, <<118, 99, 112, 101>>))),
        \* TLVs with a value of no bytes and of one byte
        V2Bytes(33, 17, V2Block4(11, 22) \o <<234, 0, 0>>),
        V2Bytes(33, 17, V2Block4(11, 22) \o <<PP2_TYPE_ALPN, 0, 0, 234, 0, 1, 7>>),
        V2Bytes(33, 17, V2Block4(11, 22) \o <<PP2_TYPE_ALPN, 0, 2, 104, 50, 234, 0, 0>>),
        V2ProxyCrc, V2ProxyBadCrc,
        \* headers followed by "GET /\r\n"
        V2Proxy \o AppData, V2ProxyCrc \o AppData, V2Local \o AppData,
        V2Bytes(32, 17, V2Block4(11, 22)) \o AppData}
  \* version 1 lines "PROXY TCP4" and "PROXY TCP6" followed by 0, 1, 2, 3 and
  \* 5 fields
  \cup {v1Prefix \o StrTCP4 \o more \o <<13, 10>> :
          more \in {<<>>, Addr4, Addr4 \o Addr4, Addr4 \o Addr4 \o Port11,
                    Addr4 \o Addr4 \o Port11 \o Port11 \o Port11}}
  \cup {v1Prefix \o StrTCP6 \o more \o <<13, 10>> :
          more \in {Addr6 \o Addr6 \o Port11,
                    Addr6 \o Addr6 \o Port11 \o Port11 \o Addr6}}
  \* version 1 lines of 107 and of 108 bytes, with and without bytes after
  \* them, and streams of 106, 107 and 150 bytes that begin with the prefix
  \* and hold no line feed
  \cup {Unterminated(105) \o <<13, 10>>, Unterminated(105) \o <<13, 10>> \o AppData,
        Unterminated(105) \o <<120, 10>>,
        Unterminated(106) \o <<13, 10>>, Unterminated(106) \o <<13, 10>> \o AppData,
        Unterminated(106), Unterminated(107), Unterminated(150),
        v1Prefix, Take(V1Proxy, Len(V1Proxy) - 2)}
  \* streams without a header: nothing, "GE", "GET /\r\n", "PROXY", "PROXY\r\n",
  \* the first 6 and the first 11 bytes of the signature, and these followed
  \* by other bytes
  \cup {<<>>, Take(AppData, 2), AppData, Take(v1Prefix, 5), Take(v1Prefix, 5) \o <<13, 10>>,
        Take(v2Signature, 6), Take(v2Signature, 11),
        Take(v2Signature, 6) \o AppData, Take(v2Signature, 11) \o <<0>> \o AppData}

\* ReadHeader(bufio.NewReader(rd)) where the Reads of rd return the segments
\* segs one after the other and then io.EOF: [header, err, rest], rest the
\* bytes that Reads of the same bufio.Reader return after the call
ReadHeaderSegments(segs) ==
  Bind(ReadHeader(NewReader([i \in 1..Len(segs) + 1 |->
                               IF i <= Len(segs) THEN [data |-> segs[i], err |-> "nil"]
                               ELSE [data |-> <<>>, err |-> EOF]])),
       LAMBDA r :
       [header |-> r.header, err |-> r.err,
        rest |-> r.rd.buf \o Flatten([i \in 1..Len(r.rd.chunks) |-> r.rd.chunks[i].data])])

\* ReadHeader(bufio.NewReader(bytes.NewReader(raw)))
ReadHeaderBytes(raw) == ReadHeaderSegments(IF raw = <<>> THEN <<>> ELSE <<raw>>)

\* the last call made
LastOp == IF codec.ops = <<>> THEN "none" ELSE codec.ops[Len(codec.ops)]

\* h.Format() or h.FormatWithChecksum() on the header at hand
CodecFormat(want) ==
  /\ codec.h # NilValue
  /\ codec.err = "nil"
  /\ Len(codec.ops) < MaxCodecOps
  /\ LastOp \in {"none", "ReadHeader", "ChecksumCRC32c"}
  /\ want = codec.want
  /\ codec' = Bind(formatHeader(codec.h, want), LAMBDA r :
              [codec EXCEPT !.h = r.h, !.raw = r.raw, !.err = r.err,
                            !.ops = Append(@, IF want THEN "FormatWithChecksum"
                                                      ELSE "Format")])
  /\ UNCHANGED <<c, rawConn, peer, now, pc, op, ret, calls, body, delivered, parses>>

\* ReadHeader on the bytes at hand
CodecReadHeader ==
  /\ codec.err = "nil"
  /\ Len(codec.ops) < MaxCodecOps
  /\ IF codec.ops = <<>> THEN codec.h = NilValue
     ELSE LastOp \in {"Format", "FormatWithChecksum"}
  /\ codec' = Bind(ReadHeaderBytes(codec.raw), LAMBDA r :
              [codec EXCEPT !.h = r.header, !.err = r.err, !.rest = r.rest,
                            !.ops = Append(@, "ReadHeader")])
  /\ UNCHANGED <<c, rawConn, peer, now, pc, op, ret, calls, body, delivered, parses>>

\* ReadHeader on the bytes a peer has sent, through a bufio.Reader over a
\* connection whose first Read returns the first cut bytes and whose second
\* Read returns the others
CodecReadSplit ==
  /\ codec.ops = <<>> /\ codec.h = NilValue
  /\ \E cut \in 1..(Len(codec.raw) - 1) :
       codec' = Bind(ReadHeaderSegments(<<Take(codec.raw, cut), Drop(codec.raw, cut)>>),
                LAMBDA r :
                [codec EXCEPT !.h = r.header, !.err = r.err, !.rest = r.rest,
                              !.cut = cut, !.ops = <<"ReadHeaderSplit">>])
  /\ UNCHANGED <<c, rawConn, peer, now, pc, op, ret, calls, body, delivered, parses>>

\* parseTLVs on the bytes that TLV.Format returns for the TLVs of the
\* header at hand, one after the other
CodecTLVs ==
  /\ codec.input # NilValue /\ codec.ops = <<>> /\ ~codec.want
  /\ codec.input.Version = Version2 /\ codec.input.Command = CMD_PROXY
  /\ codec' = Bind(Flatten([i \in DOMAIN codec.input.TLVs |->
                              TLVFormat(codec.input.TLVs[i])]), LAMBDA data :
              Bind(parseTLVs(data), LAMBDA r :
              [codec EXCEPT !.raw = data, !.h = [codec.input EXCEPT !.TLVs = r.tlvs],
                            !.err = r.err, !.ops = <<"parseTLVs">>]))
  /\ UNCHANGED <<c, rawConn, peer, now, pc, op, ret, calls, body, delivered, parses>>

\* GetVpceID() on a Conn that holds the header just parsed
CodecGetVpceID ==
  /\ codec.h # NilValue /\ codec.err = "nil"
  /\ Len(codec.ops) < MaxCodecOps
  /\ LastOp = "ReadHeader"
  /\ codec' = [codec EXCEPT !.vpce = GetVpceID([c EXCEPT !.Header = codec.h]),
                            !.ops = Append(@, "GetVpceID")]
  /\ UNCHANGED <<c, rawConn, peer, now, pc, op, ret, calls, body, delivered, parses>>

\* GetVpceIDWithType(typ, subType) on a Conn that holds the header just parsed
CodecGetVpceIDWithType(typ, subType) ==
  /\ codec.h # NilValue /\ codec.err = "nil"
  /\ Len(codec.ops) < MaxCodecOps
  /\ LastOp = "ReadHeader"
  /\ codec' = [codec EXCEPT
                !.vpce = GetVpceIDWithType([c EXCEPT !.Header = codec.h], typ, subType),
                !.ops = Append(@, "GetVpceIDWithType")]
  /\ UNCHANGED <<c, rawConn, peer, now, pc, op, ret, calls, body, delivered, parses>>

\* h.ChecksumCRC32c() on the header just parsed
CodecChecksum ==
  /\ codec.h # NilValue
  /\ codec.err = "nil"
  /\ Len(codec.ops) < MaxCodecOps
  /\ LastOp = "ReadHeader"
  /\ codec' = [codec EXCEPT !.valid = ChecksumCRC32c(codec.h),
                            !.ops = Append(@, "ChecksumCRC32c")]
  /\ UNCHANGED <<c, rawConn, peer, now, pc, op, ret, calls, body, delivered, parses>>

\* a caller holds a header, or a peer has sent a byte string; no connection
\* is in use
CodecInit ==
  /\ c = NewConn(<<>>)
  /\ peer = [wire |-> <<>>, unsent |-> <<>>, closed |-> TRUE]
  /\ rawConn = [recv |-> <<>>, readDeadline |-> ZeroTime,
                writeDeadline |-> ZeroTime, closed |-> TRUE, closes |-> 1]
  /\ now = 1
  /\ pc = [t \in Threads |-> "idle"]
  /\ op = [t \in Threads |-> "none"]
  /\ ret = [t \in Threads |-> NoRet]
  /\ calls = MaxCalls
  /\ body = [originalDeadline |-> ZeroTime, chunks |-> <<>>, parse |-> Parse(<<>>),
             header |-> NilValue, err |-> "nil", posted |-> <<>>]
  /\ delivered = <<>>
  /\ parses = 0
  /\ \/ \E h \in Headers : \E want \in BOOLEAN :
          codec = [NoCodec EXCEPT !.input = h, !.h = h, !.want = want]
     \/ \E raw \in PeerBytes : codec = [NoCodec EXCEPT !.raw = raw]

CodecNext ==
  \/ \E want \in BOOLEAN : CodecFormat(want)
  \/ CodecReadHeader
  \/ CodecReadSplit
  \/ CodecTLVs
  \/ CodecGetVpceID
  \/ \E typ \in {PP2_TYPE_ALPN, 234}, subType \in {0, 1} : CodecGetVpceIDWithType(typ, subType)
  \/ CodecChecksum

CodecSpec == CodecInit /\ [][CodecNext]_vars

\* a header of the data model: a LOCAL header has no endpoints and no TLVs;
\* a PROXY header has two endpoints of the kind its family and transport
\* name, with ports from 1 to 65535; version 1 carries TCP only and no TLV
ValidHeader(h) ==
  /\ h.Version \in {Version1, Version2}
  /\ h.Command \in {CMD_LOCAL, CMD_PROXY}
  /\ h.Command = CMD_LOCAL => h.SrcAddr = NilValue /\ h.DstAddr = NilValue /\ h.TLVs = <<>>
  /\ h.Command = CMD_PROXY =>
       /\ h.SrcAddr # NilValue /\ h.DstAddr # NilValue
       /\ h.Version = Version1 => h.TLVs = <<>> /\ h.TransportProtocol = SOCK_STREAM
       /\ IF h.AddressFamily = AF_UNIX
          THEN IsUnixAddr(h.SrcAddr) /\ IsUnixAddr(h.DstAddr) /\ h.Version = Version2
          ELSE /\ h.AddressFamily \in {AF_INET, AF_INET6}
               /\ \A a \in {h.SrcAddr, h.DstAddr} :
                    /\ IsIPAddr(a, IF h.TransportProtocol = SOCK_STREAM THEN "tcp" ELSE "udp")
                    /\ a.Port \in 1..65535
                    /\ (Len(To4(a.IP)) = 4) = (h.AddressFamily = AF_INET)

\* the same endpoint: both absent, or of one kind with equal address and port
SameAddr(a, b) ==
  IF a = NilValue \/ b = NilValue THEN a = b
  ELSE IF IsUnixAddr(a) \/ IsUnixAddr(b) THEN a = b
  ELSE a.Net = b.Net /\ To16(a.IP) = To16(b.IP) /\ a.Port = b.Port

\* the same records, each as often, in any order
SameMultiset(s, t) ==
  /\ Len(s) = Len(t)
  /\ \A i \in DOMAIN s :
       Cardinality({j \in DOMAIN s : s[j] = s[i]}) = Cardinality({j \in DOMAIN t : t[j] = s[i]})

\* semantically equal headers
SemanticallyEqual(g, h) ==
  /\ g # NilValue /\ h # NilValue
  /\ g.Version = h.Version /\ g.Command = h.Command
  /\ g.AddressFamily = h.AddressFamily /\ g.TransportProtocol = h.TransportProtocol
  /\ SameAddr(g.SrcAddr, h.SrcAddr) /\ SameAddr(g.DstAddr, h.DstAddr)
  /\ SameMultiset(g.TLVs, h.TLVs)

\* C14: for every valid header H of either version, LOCAL or PROXY, with any
\* list of TLVs, Format(H) succeeds, ReadHeader on its bytes succeeds with a
\* header semantically equal to H (version, command, family, transport,
\* endpoints, multiset of TLVs), and formatting and parsing that header again
\* gives a header semantically equal to H once more.
C14_RoundTrip ==
  (codec.input # NilValue /\ ValidHeader(codec.input) /\ ~codec.want /\ codec.ops # <<>>)
    => /\ codec.err = "nil"
       /\ LastOp = "ReadHeader" => SemanticallyEqual(codec.h, codec.input)

\* C15: Format of a LOCAL header (no source and no destination endpoint)
\* returns no error and exactly the fixed literal: "PROXY UNKNOWN\r\n" for
\* version 1, the signature followed by 0x20 0x00 0x00 0x00 for version 2.
C15_LocalLiteral ==
  (/\ codec.input # NilValue /\ codec.input.Command = CMD_LOCAL
   /\ codec.input.SrcAddr = NilValue /\ codec.input.DstAddr = NilValue
   /\ codec.ops = <<"Format">>)
    => /\ codec.err = "nil"
       /\ codec.raw = IF codec.input.Version = Version1
                      THEN <<80, 82, 79, 88, 89, 32, 85, 78, 75, 78, 79, 87, 78, 13, 10>>
                      ELSE v2Signature \o <<32, 0, 0, 0>>

\* a version 2 header that ends before any address block: command LOCAL or
\* payload length 0
V2WithoutBlock(raw) ==
  /\ Len(raw) >= 16 /\ IsPrefix(v2Signature, raw)
  /\ raw[13] \in {32, 33}
  /\ raw[13] = 32 \/ (raw[15] = 0 /\ raw[16] = 0)
  /\ Len(raw) = 16 + raw[15] * 256 + raw[16]

\* C16: the binary parser takes 0 (unspecified) as a valid family nibble and
\* as a valid transport nibble of byte 13: a version 2 header that carries no
\* address block and has one or both nibbles 0 parses without error to a
\* LOCAL header without endpoints; so does the LOCAL literal of the formatter
\* (byte 12 = 0x20, byte 13 = 0x00, length 0).
C16_UnspecAccepted ==
  (/\ codec.input = NilValue /\ codec.ops = <<"ReadHeader">>
   /\ V2WithoutBlock(codec.raw)
   /\ codec.raw[14] \div 16 \in {AF_UNSPEC, AF_INET, AF_INET6, AF_UNIX}
   /\ codec.raw[14] % 16 \in {SOCK_UNSPEC, SOCK_STREAM, SOCK_DGRAM}
   /\ codec.raw[14] \div 16 = AF_UNSPEC \/ codec.raw[14] % 16 = SOCK_UNSPEC)
    => /\ codec.err = "nil"
       /\ codec.h # NilValue
       /\ codec.h.Command = CMD_LOCAL
       /\ codec.h.SrcAddr = NilValue /\ codec.h.DstAddr = NilValue

\* C17: for every version 2 PROXY header, with whatever TLV list the caller
\* gives it, for which FormatWithChecksum succeeds, the bytes produced parse,
\* and ChecksumCRC32c of the parsed header answers valid: the bytes carry a
\* CRC32C TLV holding the CRC-32c of the whole header with that value zeroed.
C17_FormattedChecksumVerifies ==
  (/\ codec.input # NilValue
   /\ codec.input.Version = Version2 /\ codec.input.Command = CMD_PROXY
   /\ Len(codec.ops) >= 2
   /\ codec.ops[1] = "FormatWithChecksum" /\ codec.ops[2] = "ReadHeader")
    => /\ codec.err = "nil"
       /\ codec.valid

\* the header carries no TLV of type CRC32C
NoChecksumTLV(h) == \A i \in DOMAIN h.TLVs : h.TLVs[i].Type # PP2_TYPE_CRC32C

\* C18: ChecksumCRC32c answers valid for every parsed header that is not a
\* version 2 PROXY header with a recognised transport, and for every parsed
\* header in which no CRC32C TLV is found; so a Conn that requires the
\* checksum accepts a parsed header without CRC32C TLV: it keeps it as Header
\* and records no error.
C18_AbsentChecksumAccepted ==
  (body.err = "nil" /\ body.header # NilValue)
    => /\ (\/ body.header.Version # Version2
           \/ body.header.Command # CMD_PROXY
           \/ TransportProtocolString(body.header.TransportProtocol) = Unknown
           \/ NoChecksumTLV(body.header))
            => /\ ChecksumCRC32c(body.header)
               /\ (c.checksum /\ c.readHeaderOnce.done)
                    => c.Header = body.header /\ Err(c) = "nil"

\* a Conn that requires the checksum has parsed and kept a version 2 PROXY
\* header with a TLV and without checksum
C18_Witness ==
  /\ c.checksum /\ c.readHeaderOnce.done
  /\ c.Header # NilValue /\ Err(c) = "nil"
  /\ c.Header.Version = Version2 /\ c.Header.Command = CMD_PROXY
  /\ c.Header.TLVs # <<>> /\ NoChecksumTLV(c.Header)

\* the bytes are a PROXY header with two addresses and two port fields and
\* nothing else: a version 1 line with the tag TCP4 or TCP6, two addresses
\* and two decimal numbers, or a version 2 header over IPv4 or IPv6 whose
\* payload is the address block
HasPortFields(raw) ==
  IF IsPrefix(v1Prefix, raw)
  THEN Bind(Fields(raw), LAMBDA f :
       /\ Len(f) = 6 /\ f[2] \in {StrTCP4, StrTCP6}
       /\ ParseIP(f[3]) # <<>> /\ ParseIP(f[4]) # <<>>
       /\ AllDigits(f[5]) /\ AllDigits(f[6])
       /\ SubSeq(raw, Len(raw) - 1, Len(raw)) = <<13, 10>>)
  ELSE /\ IsPrefix(v2Signature, raw) /\ Len(raw) >= 16
       /\ raw[13] = 33
       /\ \/ raw[14] \in {17, 18} /\ Len(raw) = 16 + addressLengthIPv4
                                  /\ raw[15] * 256 + raw[16] = addressLengthIPv4
          \/ raw[14] \in {33, 34} /\ Len(raw) = 16 + addressLengthIPv6
                                  /\ raw[15] * 256 + raw[16] = addressLengthIPv6

\* the source and the destination port such a header names
WirePorts(raw) ==
  IF IsPrefix(v1Prefix, raw)
  THEN Bind(Fields(raw), LAMBDA f : {DecVal(f[5], 0), DecVal(f[6], 0)})
  ELSE IF raw[14] \in {17, 18}
  THEN {Uint16At(raw, 24), Uint16At(raw, 26)}
  ELSE {Uint16At(raw, 48), Uint16At(raw, 50)}

ParsedHeader == LastOp = "ReadHeader" /\ codec.err = "nil" /\ codec.h # NilValue

\* the network of the endpoints of a header of family af and transport tp
NetworkOf(af, tp) ==
  CASE af = AF_UNIX -> (IF tp = SOCK_DGRAM THEN "unixgram" ELSE "unix")
    [] tp = SOCK_DGRAM -> "udp"
    [] OTHER -> "tcp"

WireRead ==
  codec.input = NilValue /\ Len(codec.ops) = 1
  /\ codec.ops[1] \in {"ReadHeader", "ReadHeaderSplit"}

\* C21: ReadHeader on a stream that begins neither with the text prefix nor
\* with the binary signature (streams that end before 6 or before 12 bytes
\* and streams whose first 6 bytes begin the signature included) returns
\* ErrNoProxyProtocol and no header, and every byte of the stream is still
\* readable from the reader afterwards.
C21_NoProtocolConsumesNothing ==
  (WireRead /\ ~IsPrefix(v1Prefix, codec.raw) /\ ~IsPrefix(v2Signature, codec.raw))
    => /\ codec.err = ErrNoProxyProtocol
       /\ codec.h = NilValue
       /\ codec.rest = codec.raw

\* a stream of 13 bytes whose first 6 bytes begin the signature has been
\* read, the first Read of the connection returning fewer than 6 bytes
C21_Witness ==
  /\ WireRead /\ codec.ops[1] = "ReadHeaderSplit" /\ codec.cut < 6
  /\ Len(codec.raw) >= 12
  /\ IsPrefix(Take(v2Signature, 6), codec.raw) /\ ~IsPrefix(v2Signature, codec.raw)
  /\ codec.err = ErrNoProxyProtocol

\* the bytes are one line "PROXY TCP4 ..." or "PROXY TCP6 ..." that ends
\* with CRLF and is no longer than a version 1 header may be
V1TCPLine(raw) ==
  /\ IsPrefix(v1Prefix, raw) /\ Len(raw) <= v1HeaderMaxLength
  /\ IndexByte(raw, 10, 1) = Len(raw) /\ raw[Len(raw) - 1] = 13
  /\ Len(Fields(raw)) >= 2 /\ Fields(raw)[2] \in {StrTCP4, StrTCP6}

\* C22: the text parser accepts a TCP4 or TCP6 line only when exactly four
\* fields follow the protocol tag; a line with fewer or with more than four
\* further fields fails with ErrNotFoundAddressOrPort.
C22_ExactlyFourFields ==
  (WireRead /\ V1TCPLine(codec.raw) /\ Len(Fields(codec.raw)) # 6)
    => codec.err = ErrNotFoundAddressOrPort

\* the field is written as an IPv4 address (dotted, no colon), as an IPv6
\* address (with colons)
IPv4Literal(f) == IndexByte(f, 46, 1) > 0 /\ IndexByte(f, 58, 1) = 0
IPv6Literal(f) == IndexByte(f, 58, 1) > 0

\* C23: the text parser rejects a line whose source or destination address
\* is not of the declared family, an IPv4 literal under TCP6 and an IPv6
\* literal under TCP4, and a parsed TCP6 header never carries an IPv4
\* endpoint.
C23_FamilyOfLiteral ==
  (WireRead /\ V1TCPLine(codec.raw) /\ Len(Fields(codec.raw)) = 6)
    => Bind(Fields(codec.raw), LAMBDA f :
       /\ (f[2] = StrTCP6 /\ (IPv4Literal(f[3]) \/ IPv4Literal(f[4]))) => codec.err # "nil"
       /\ (f[2] = StrTCP4 /\ (IPv6Literal(f[3]) \/ IPv6Literal(f[4]))) => codec.err # "nil"
       /\ (codec.err = "nil" /\ codec.h.AddressFamily = AF_INET6)
            => To4(codec.h.SrcAddr.IP) = <<>> /\ To4(codec.h.DstAddr.IP) = <<>>)

\* no byte of s is a line feed
NoLineFeed(s) == \A i \in 1..Len(s) : s[i] # 10

\* the number of bytes the call has taken from the reader
Consumed == Len(codec.raw) - Len(codec.rest)

\* C24: readV1 never consumes more than 107 bytes of the stream and never
\* returns a raw header longer than 107 bytes: without a line feed within
\* the first 107 bytes it fails with ErrHeaderTooLong however many bytes
\* follow, and when the stream ends before a line feed and before 107 bytes
\* it fails with io.EOF.
C24_LineBounded ==
  (WireRead /\ IsPrefix(v1Prefix, codec.raw))
    => /\ Consumed <= v1HeaderMaxLength
       /\ codec.rest = Drop(codec.raw, Consumed)
       /\ codec.err = "nil" => Len(codec.h.Raw) <= v1HeaderMaxLength
       /\ (Len(codec.raw) >= v1HeaderMaxLength
           /\ NoLineFeed(Take(codec.raw, v1HeaderMaxLength)))
            => codec.err = ErrHeaderTooLong /\ Consumed = v1HeaderMaxLength
       /\ (Len(codec.raw) < v1HeaderMaxLength /\ NoLineFeed(codec.raw))
            => codec.err = EOF

\* a stream of 150 bytes without line feed has been read, in two pieces
C24_Witness ==
  /\ WireRead /\ IsPrefix(v1Prefix, codec.raw)
  /\ Len(codec.raw) = 150 /\ codec.cut > 0
  /\ codec.err = ErrHeaderTooLong /\ Len(codec.rest) = 43

\* the header is a PROXY header between an IPv4 and an IPv6 address
MixedIPVersions(h) ==
  /\ h # NilValue /\ h.Command = CMD_PROXY
  /\ h.SrcAddr # NilValue /\ h.DstAddr # NilValue
  /\ ~IsUnixAddr(h.SrcAddr) /\ ~IsUnixAddr(h.DstAddr)
  /\ (To4(h.SrcAddr.IP) = <<>>) # (To4(h.DstAddr.IP) = <<>>)

RECURSIVE EncodedLength(_)
\* the length of the encoded forms of the TLVs: type, length and value each
EncodedLength(tlvs) ==
  IF tlvs = <<>> THEN 0 ELSE 3 + Len(Head(tlvs).Value) + EncodedLength(Tail(tlvs))

\* a version 2 PROXY header between two endpoints of one kind with valid
\* ports, whose TLVs all have a value, has been formatted
FormattedV2 ==
  /\ codec.input # NilValue /\ Len(codec.ops) = 1
  /\ codec.input.Version = Version2 /\ codec.input.Command = CMD_PROXY
  /\ guessAndParseAddrs(codec.input.SrcAddr, codec.input.DstAddr).buf # NilValue
  /\ \A i \in DOMAIN codec.input.TLVs :
       /\ codec.input.TLVs[i].Value # <<>>
       /\ codec.input.TLVs[i].Length = Len(codec.input.TLVs[i].Value)

\* the payload the header asks for: the address block, every TLV, and the
\* CRC32C TLV when the checksum is wanted
PayloadWanted ==
  guessAndParseAddrs(codec.input.SrcAddr, codec.input.DstAddr).length
  + EncodedLength(codec.input.TLVs) + (IF codec.want THEN 7 ELSE 0)

C27_TLVRoundTrip ==
  (/\ codec.ops = <<"parseTLVs">>
   /\ \A i \in DOMAIN codec.input.TLVs :
        /\ Len(codec.input.TLVs[i].Value) <= MaxUint16
        /\ codec.input.TLVs[i].Length = Len(codec.input.TLVs[i].Value))
    => /\ codec.err = "nil"
       /\ codec.h.TLVs = codec.input.TLVs

\* C28: after a successful binary parse exactly 16 + payload length bytes
\* have been consumed from the stream, payload length being the value of
\* the 16-bit length field, for a LOCAL header with a payload as well: no
\* byte of the declared header is left to be read as application data.
C28_WholeHeaderConsumed ==
  (WireRead /\ IsPrefix(v2Signature, codec.raw) /\ codec.err = "nil")
    => /\ Consumed = 16 + Uint16At(codec.raw, 14)
       /\ codec.rest = Drop(codec.raw, Consumed)

\* C29: the result of parsing a binary header depends on the bytes the peer
\* sends only, not on how the stream splits them across reads: when all
\* 16 + payload length bytes of a well-formed header arrive, in two reads,
\* the parse succeeds with the header it returns when they arrive in one,
\* and ErrPayloadBytesTooShort is returned only when the stream ends before
\* the declared payload is complete.
C29_SplitIndependent ==
  (/\ codec.ops = <<"ReadHeaderSplit">>
   /\ IsPrefix(v2Signature, codec.raw) /\ Len(codec.raw) >= 16)
    => /\ ReadHeaderBytes(codec.raw).err = "nil"
            => /\ codec.err = "nil"
               /\ codec.h = ReadHeaderBytes(codec.raw).header
       /\ codec.err = ErrPayloadBytesTooShort
            => Len(codec.raw) < 16 + Uint16At(codec.raw, 14)

\* C30: GetVpceID and GetVpceIDWithType never fail at run time on a header
\* that the binary parser has accepted, a header whose selected TLV has a
\* value of no bytes included: they return the empty string then.
C30_VpceIDNeverPanics ==
  (LastOp \in {"GetVpceID", "GetVpceIDWithType"} /\ codec.h.Version = Version2)
    => /\ ~codec.vpce.panic
       /\ (\A i \in DOMAIN codec.h.TLVs : codec.h.TLVs[i].Value = <<>>)
            => codec.vpce.val = <<>>

====
